---- MODULE Spec2Model ----
(***************************************************************************)
(* A model of buildcache's wrapper driver (program_wrapper_t::             *)
(* handle_command), of the fingerprint it computes, of the MSVC wrapper's  *)
(* operations, of the thread pool (thread_pool_t), of the deferred-close   *)
(* pool (io_worker) and of the Redis cache provider                        *)
(* (redis_cache_provider_t).                                               *)
(*                                                                         *)
(* Byte strings are sequences of byte values (97 = 'a', 32 = ' ', ...).    *)
(* A std::map is a sequence of entries kept in ascending key order.        *)
(***************************************************************************)
EXTENDS Integers, Sequences, FiniteSets, TLC

VARIABLES
  \* ---- one invocation of handle_command ----
  pc,                 \* position in handle_command
  cfg,                \* the configuration (config::terminate_on_miss(), ...)
  capabilites,        \* capabilities_t built from get_capabilities()
  hasher,             \* hasher_t: the bytes fed to the digest so far
  inp,                \* what the wrapper operations returned in this invocation
  hash,               \* result of hasher.final()
  allow_hard_links,
  expected_files,     \* get_build_files(): map file id -> (path, required)
  result,             \* run_for_miss() result
  disk,               \* the expected files of this invocation that exist on disk
  file_ids,
  return_code,        \* the int& return_code argument
  retval,             \* what handle_command returned / how the process ended
  exc,                \* the exception in flight
  stdout,             \* what the process wrote to std::cout
  \* ---- what outlives an invocation ----
  cache,              \* m_cache: the stored entries, by hash
  \* ---- history of the current invocation (for the properties) ----
  trace,              \* the calls made by handle_command, in order
  added,              \* the entry handed to m_cache.add
  cache0,             \* the cache when the invocation started
  prev,               \* the previous invocation: its hash if its tool run failed
  \* ---- the fingerprint of two invocations, side by side ----
  fpA, fpB,           \* wrapper outputs of invocation A and of invocation B
  fpDone,             \* the two fingerprints, once computed
  fpEdits,            \* the changes that lead from A's outputs to B's
  \* ---- the MSVC wrapper (msvc_wrapper_t) ----
  msvc_pc,            \* the wrapper operation the driver calls next
  m_args,             \* the command line, m_args[0] being the compiler path
  m_resolved_args,
  msvc_env,           \* the environment and platform the wrapper runs in
  msvc_out,           \* how each wrapper operation ended, and with what
  \* ---- the thread pool (thread_pool_t) ----
  m_queue,            \* the enqueued functions, oldest first
  m_pending_funcs,
  m_terminate,
  m_exception,        \* the stored exception: the function that threw it
  m_got_exception,
  m_pending_funcs_mutex,  \* the thread that holds it, or "free"
  tp_workers,         \* each worker thread: its position and its function
  tp_client,          \* the thread that owns the pool
  tp_waiters,         \* the other threads that call wait(), each once
  tp_tasks,           \* what became of each function
  tp_recorded,        \* the functions whose exception was stored, in order
  m_queue_mutex,      \* the thread that holds it, or "free"
  m_exception_mutex,  \* the thread that holds it, or "free"
  \* ---- the deferred-close pool (io_worker) ----
  s_thread_pool,      \* the worker threads: position and handle in hand
  s_terminate,
  s_fclose_queue,
  io_main,            \* the thread that calls start, stop and enqueue_fclose
  io_handles,         \* what became of each handle
  io_producer,        \* another thread that calls enqueue_fclose
  \* ---- the remote store and its clients (redis_cache_provider_t) ----
  redis_store,        \* the server: key -> value, or Absent
  rd_writers,         \* the processes that call add, each with its provider
  rd_reader,          \* a process that calls lookup and get_file
  rd_adds,            \* the number of calls of add so far
  \* ---- one provider and the endpoint it is given ----
  rc_ctx,             \* m_ctx of the provider
  rc_call,            \* the last call of connect: its argument and result
  \* ---- the local store and the processes that use it ----
  ls_fs,              \* the directories under the cache root, by path
  ls_manifest,        \* the global manifest: <<key, size>>, oldest access first
  ls_cap,             \* the configured maximum size
  ls_procs,           \* each process: its position in add, and its key
  ls_adds,            \* the calls of add, the keys added and the crashes so far
  ls_seen,            \* the entry that was hit since the last insert
  ls_last,            \* the last insert: what it evicted first, if no add followed
  ls_s4               \* how far the operations so far follow scenario S4

driverVars == <<pc, cfg, capabilites, hasher, inp, hash, allow_hard_links,
                expected_files, result, disk, file_ids, return_code, retval,
                exc, stdout, cache, trace, added, cache0, prev>>
fpVars == <<fpA, fpB, fpDone, fpEdits>>
msvcVars == <<msvc_pc, m_args, m_resolved_args, msvc_env, msvc_out>>
poolVars == <<m_queue, m_pending_funcs, m_terminate, m_exception,
              m_got_exception, m_pending_funcs_mutex, tp_workers, tp_client,
              tp_waiters, tp_tasks, tp_recorded>>
lockVars == <<m_queue_mutex, m_exception_mutex>>
ioVars == <<s_thread_pool, s_terminate, s_fclose_queue, io_main, io_handles,
            io_producer>>
redisVars == <<redis_store, rd_writers, rd_reader, rd_adds>>
connVars == <<rc_ctx, rc_call>>
storeVars == <<ls_fs, ls_manifest, ls_cap, ls_procs, ls_adds, ls_seen,
               ls_last, ls_s4>>
vars == <<driverVars, fpVars, msvcVars, poolVars, ioVars, redisVars, connVars,
          storeVars, lockVars>>
\* The variables a specification of one component leaves alone.
nonDriverVars == <<fpVars, msvcVars, poolVars, ioVars, redisVars,
  connVars, storeVars,
  lockVars>>
nonFpVars == <<driverVars, msvcVars, poolVars, ioVars, redisVars,
  connVars, storeVars,
  lockVars>>
nonMsvcVars == <<driverVars, fpVars, poolVars, ioVars, redisVars,
  connVars, storeVars,
  lockVars>>
nonPoolVars == <<driverVars, fpVars, msvcVars, ioVars, redisVars,
  connVars, storeVars,
  lockVars>>
nonIoVars == <<driverVars, fpVars, msvcVars, poolVars, redisVars,
  connVars, storeVars,
  lockVars>>
nonRedisVars == <<driverVars, fpVars, msvcVars, poolVars, ioVars, connVars,
  storeVars,
  lockVars>>
nonConnVars == <<driverVars, fpVars, msvcVars, poolVars, ioVars, redisVars,
  storeVars,
  lockVars>>
nonStoreVars == <<driverVars, fpVars, msvcVars, poolVars, ioVars, redisVars,
  connVars,
  lockVars>>
\* What a specification of the thread pool and its mutexes leaves alone.
nonPoolLockVars == <<driverVars, fpVars, msvcVars, ioVars, redisVars,
  connVars, storeVars>>

----------------------------------------------------------------------------
(* Bounds of the model.                                                    *)

\* Tool exit codes are 0 .. MaxExitCode.
MaxExitCode == 2
\* Invocations made one after the other against the same cache.
MaxInvocations == 3
\* Length of a preprocessed source, a program id, an env-var value.
MaxLen == 1
\* Number of relevant arguments.
MaxArgs == 2

None == "none"

----------------------------------------------------------------------------
(* Byte strings and sorted maps.                                           *)

RECURSIVE BytesLess(_, _)
\* std::string operator< : lexicographic comparison of the bytes.
BytesLess(a, b) ==
  IF b = <<>> THEN FALSE
  ELSE IF a = <<>> THEN TRUE
  ELSE IF Head(a) # Head(b) THEN Head(a) < Head(b)
  ELSE BytesLess(Tail(a), Tail(b))

RECURSIVE MapPutAppend(_, _, _)
\* (a std::map that kept insertion order instead of key order)
MapPutAppend(m, k, v) ==
  IF m = <<>> THEN << <<k, v>> >>
  ELSE IF m[1][1] = k THEN << <<k, v>> >> \o Tail(m)
  ELSE <<m[1]>> \o MapPutAppend(Tail(m), k, v)

RECURSIVE MapPut(_, _, _)
\* std::map<std::string, std::string>::operator[] followed by assignment:
\* the entry goes to its place in ascending key order; an existing key keeps
\* its place and gets the new value.
MapPut(m, k, v) ==
  IF m = <<>> THEN << <<k, v>> >>
  ELSE IF m[1][1] = k THEN << <<k, v>> >> \o Tail(m)
  ELSE IF BytesLess(k, m[1][1]) THEN << <<k, v>> >> \o m
  ELSE <<m[1]>> \o MapPut(Tail(m), k, v)

RECURSIVE MapOf(_)
\* get_relevant_env_vars(): an empty map filled by one env_vars[key] = value
\* per variable, in the order the wrapper visits them.
MapOf(puts) ==
  IF puts = <<>> THEN <<>>
  ELSE MapPut(MapOf(SubSeq(puts, 1, Len(puts) - 1)),
              puts[Len(puts)][1], puts[Len(puts)][2])

----------------------------------------------------------------------------
(* hasher_t                                                                *)

\* hasher_t(): XXH3_128bits_reset, nothing fed yet.
HasherInit == <<>>

\* hasher_t::update(const std::string&): feeds text.data(), text.size() bytes,
\* with no length and no terminator.
HasherUpdate(ctx, text) == ctx \o text

RECURSIVE HasherUpdateMap(_, _)
\* hasher_t::update(const std::map&): the pairs in ascending key order, each
\* key and each value followed by a separator byte (0, which occurs in no
\* environment string).
HasherUpdateMap(ctx, data) ==
  IF data = <<>> THEN ctx
  ELSE HasherUpdateMap(
         HasherUpdate(HasherUpdate(HasherUpdate(HasherUpdate(ctx,
           data[1][1]), <<0>>), data[1][2]), <<0>>),
         Tail(data))

\* hasher_t::final(): the 128-bit digest of the bytes fed. The digest is
\* taken as collision-free: it is identified by the bytes it was computed of.
HasherFinal(ctx) == [digest_of |-> ctx]

RECURSIVE EscapeArg(_)
\* Escaping of one argument for join(" ", true): a backslash goes before
\* every space and every backslash.
EscapeArg(s) ==
  IF s = <<>> THEN <<>>
  ELSE (IF Head(s) \in {32, 92} THEN <<92, Head(s)>> ELSE <<Head(s)>>)
       \o EscapeArg(Tail(s))

RECURSIVE Join(_)
\* string_list_t::join(" ", true): the escaped arguments with one space
\* between two neighbours.
Join(args) ==
  IF args = <<>> THEN <<>>
  ELSE IF Len(args) = 1 THEN EscapeArg(args[1])
  ELSE EscapeArg(args[1]) \o <<32>> \o Join(Tail(args))

\* (a digest that leaves the program id out)
FingerprintWithoutId(src, args, env, id) ==
  HasherFinal(
    HasherUpdateMap(
      HasherUpdate(
        HasherUpdate(HasherInit, src),
        Join(args)),
      env))

\* The digest of one invocation, from what the wrapper returned: the
\* preprocessed source, the joined relevant arguments, the relevant env
\* vars, the program id.
Fingerprint(src, args, env, id) ==
  HasherFinal(
    HasherUpdate(
      HasherUpdateMap(
        HasherUpdate(
          HasherUpdate(HasherInit, src),
          Join(args)),
        env),
      id))

----------------------------------------------------------------------------
(* debug::log                                                              *)

LogLevels == {"DEBUG", "INFO", "ERROR", "FATAL", "NONE"}

\* The order of log_level_t: DEBUG < INFO < ERROR < FATAL < NONE.
LevelRank(l) ==
  CASE l = "DEBUG" -> 1 [] l = "INFO" -> 2 [] l = "ERROR" -> 3
    [] l = "FATAL" -> 4 [] OTHER -> 5

\* debug::log::~log(): a message of a level at or above the configured one
\* is written as one line to std::cout.
Log(out, debug, level, msg) ==
  IF LevelRank(level) >= LevelRank(debug)
  THEN Append(out, [kind |-> "log", level |-> level, text |-> msg])
  ELSE out

----------------------------------------------------------------------------
(* The inputs of an invocation.                                            *)

\* "CL" and "_CL_", the variables msvc_wrapper_t::get_relevant_env_vars reads.
ENV_CL == <<67, 76>>
ENV__CL_ == <<95, 67, 76, 95>>

\* Preprocessed sources: "a", "b".
Sources == {<<97>>, <<98>>}
\* Relevant argument lists: cc -c.
ArgLists == {<< <<99, 99>>, <<45, 99>> >>}
\* What the wrapper puts into the env-var map: CL=/W4.
EnvPuts == {<< <<ENV_CL, <<47, 87, 52>> >> >>}
\* Program ids: "1".
ProgramIds == {<<49>>}
\* Captured output of the tool.
ToolOutputs == {"warning"}

\* get_capabilities() results: none (the default), both known ones, an
\* unknown one.
CapabilityLists ==
  {<<>>, <<"hard_links", "create_target_dirs">>, <<"bogus">>}

\* get_build_files() results, in ascending file id order: none (the
\* default), a required object file, a required object file with an
\* optional coverage file.
BuildFileMaps ==
  { <<>>,
    << [id |-> "object", path |-> "a.o", required |-> TRUE] >>,
    << [id |-> "cov", path |-> "a.gcno", required |-> FALSE],
       [id |-> "object", path |-> "a.o", required |-> TRUE] >> }

Range(f) == {f[i] : i \in DOMAIN f}
Paths(files) == {files[i].path : i \in DOMAIN files}

Configs ==
  [terminate_on_miss : BOOLEAN, hard_links : BOOLEAN, compress : BOOLEAN,
   debug : {"INFO", "NONE"}]

----------------------------------------------------------------------------
(* m_cache                                                                 *)

CacheHas(c, h) == \E e \in c : e.key = h
CacheGet(c, h) == (CHOOSE e \in c : e.key = h).entry

\* cache_t::add, when it succeeds: the entry is stored under the hash; an
\* entry already stored under that hash stays.
CacheAdd(c, h, entry) ==
  IF CacheHas(c, h) THEN c ELSE c \cup {[key |-> h, entry |-> entry]}

\* cache_t::add can succeed only if every listed file can be read.
CacheAddCanSucceed(entry, files, onDisk) ==
  \A i \in DOMAIN files :
    files[i].id \in Range(entry.file_ids) => files[i].path \in onDisk


----------------------------------------------------------------------------
(* program_wrapper_t::handle_command, one step per statement.              *)

NoHash == [digest_of |-> <<-1>>]
NoResult == [return_code |-> -1, std_out |-> "", std_err |-> ""]
NoEntry == [file_ids |-> <<>>, comp_mode |-> "none", std_out |-> "",
            std_err |-> "", return_code |-> -1]
NoInput == [src |-> <<-1>>, args |-> <<>>, env |-> <<>>, id |-> <<-1>>,
            caps |-> <<>>]
NoPrev == [failed |-> NoHash, n |-> 0]
Running == [how |-> "running"]
Returned(b) == [how |-> "return", value |-> b]
Exited(status) == [how |-> "exit", status |-> status]

\* (a constructor that takes any listed string for hard_links)
CapabilitiesAnyString(cap_strings) ==
  [hard_links |-> cap_strings # <<>>,
   create_target_dirs |-> "create_target_dirs" \in Range(cap_strings)]

\* capabilities_t::capabilities_t(cap_strings)
Capabilities(cap_strings) ==
  [hard_links |-> "hard_links" \in Range(cap_strings),
   create_target_dirs |-> "create_target_dirs" \in Range(cap_strings)]

RECURSIVE LogInvalidCapabilities(_, _, _)
\* capabilities_t::capabilities_t: an ERROR line per unknown string.
LogInvalidCapabilities(out, debug, cap_strings) ==
  IF cap_strings = <<>> THEN out
  ELSE LogInvalidCapabilities(
         IF Head(cap_strings) \in {"hard_links", "create_target_dirs"}
         THEN out
         ELSE Log(out, debug, "ERROR", "Invalid capability string"),
         debug, Tail(cap_strings))

RECURSIVE FilterAllFileIds(_, _)
\* (a filter that keeps every expected file)
FilterAllFileIds(files, onDisk) ==
  IF files = <<>> THEN <<>>
  ELSE <<Head(files).id>> \o FilterAllFileIds(Tail(files), onDisk)

RECURSIVE FilterFileIds(_, _)
\* The loop over expected_files that fills file_ids: a file id is kept if
\* the file is required or exists.
FilterFileIds(files, onDisk) ==
  IF files = <<>> THEN <<>>
  ELSE (IF Head(files).required \/ Head(files).path \in onDisk
        THEN <<Head(files).id>> ELSE <<>>)
       \o FilterFileIds(Tail(files), onDisk)

RECURSIVE PathLines(_)
\* for (file : expected_files) std::cout << file.second.path() << '\n';
PathLines(files) ==
  IF files = <<>> THEN <<>>
  ELSE <<[kind |-> "path", text |-> Head(files).path]>>
       \o PathLines(Tail(files))

\* What a throwing call leaves behind: control goes to a catch clause.
Throws(call) ==
  /\ pc' = "catch"
  /\ exc' \in {"std", "other"}
  /\ trace' = Append(trace, call)
  /\ UNCHANGED <<cfg, capabilites, hasher, inp, hash, allow_hard_links,
                 expected_files, result, disk, file_ids, return_code, retval,
                 stdout, cache, added, cache0, prev>>

\* A program_wrapper_t before handle_command is called (at "enter"), or with
\* no call to come (at "off").
DriverStart(at) ==
  /\ pc = at
  /\ capabilites = Capabilities(<<>>)
  /\ hasher = HasherInit
  /\ inp = NoInput
  /\ hash = NoHash
  /\ allow_hard_links = FALSE
  /\ expected_files = <<>>
  /\ result = NoResult
  /\ disk = {}
  /\ file_ids = <<>>
  /\ return_code = 0
  /\ retval = Running
  /\ exc = None
  /\ stdout = <<>>
  /\ cache = {}
  /\ trace = <<>>
  /\ added = NoEntry
  /\ cache0 = {}
  /\ prev = NoPrev

DriverInit == DriverStart("enter") /\ cfg \in Configs

DriverIdle ==
  /\ DriverStart("off")
  /\ cfg = [terminate_on_miss |-> FALSE, hard_links |-> FALSE,
            compress |-> FALSE, debug |-> "NONE"]

\* return_code = 1;
Enter ==
  /\ pc = "enter"
  /\ return_code' = 1
  /\ pc' = "resolve"
  /\ UNCHANGED <<cfg, capabilites, hasher, inp, hash, allow_hard_links,
                 expected_files, result, disk, file_ids, retval, exc,
                 stdout, cache, trace, added, cache0, prev>>

\* resolve_args();
ResolveArgs ==
  /\ pc = "resolve"
  /\ \/ Throws("resolve_args")
     \/ /\ pc' = "caps"
        /\ trace' = Append(trace, "resolve_args")
        /\ UNCHANGED <<cfg, capabilites, hasher, inp, hash, allow_hard_links,
                       expected_files, result, disk, file_ids, return_code,
                       retval, exc, stdout, cache, added, cache0, prev>>

\* const auto capabilites = capabilities_t(get_capabilities());
GetCapabilities ==
  /\ pc = "caps"
  /\ \/ Throws("get_capabilities")
     \/ \E cap_strings \in CapabilityLists :
          /\ capabilites' = Capabilities(cap_strings)
          /\ inp' = [inp EXCEPT !.caps = cap_strings]
          /\ stdout' = LogInvalidCapabilities(stdout, cfg.debug, cap_strings)
          /\ pc' = "hash_src"
          /\ trace' = Append(trace, "get_capabilities")
          /\ UNCHANGED <<cfg, hasher, hash, allow_hard_links,
                         expected_files, result, disk, file_ids, return_code,
                         retval, exc, cache, added, cache0, prev>>

\* (a driver that hashes an empty text when preprocess_source fails)
HashSourceIgnoresFailure ==
  /\ pc = "hash_src"
  /\ \/ /\ exc' \in {"std", "other"}
        /\ hasher' = HasherInit
        /\ pc' = "hash_args"
        /\ trace' = Append(trace, "preprocess_source")
        /\ UNCHANGED <<cfg, capabilites, inp, hash, allow_hard_links,
                       expected_files, result, disk, file_ids, return_code,
                       retval, stdout, cache, added, cache0, prev>>
     \/ \E src \in Sources :
          /\ inp' = [inp EXCEPT !.src = src]
          /\ hasher' = HasherUpdate(HasherInit, src)
          /\ pc' = "hash_args"
          /\ trace' = trace \o <<"preprocess_source", "update:src">>
          /\ UNCHANGED <<cfg, capabilites, hash, allow_hard_links,
                         expected_files, result, disk, file_ids, return_code,
                         retval, exc, stdout, cache, added, cache0, prev>>

\* hasher_t hasher; hasher.update(preprocess_source());
HashSource ==
  /\ pc = "hash_src"
  /\ \/ Throws("preprocess_source")
     \/ \E src \in Sources :
          /\ inp' = [inp EXCEPT !.src = src]
          /\ hasher' = HasherUpdate(HasherInit, src)
          /\ pc' = "hash_args"
          /\ trace' = trace \o <<"preprocess_source", "update:src">>
          /\ UNCHANGED <<cfg, capabilites, hash, allow_hard_links,
                         expected_files, result, disk, file_ids, return_code,
                         retval, exc, stdout, cache, added, cache0, prev>>

\* hasher.update(get_relevant_arguments().join(" ", true));
HashArguments ==
  /\ pc = "hash_args"
  /\ \/ Throws("get_relevant_arguments")
     \/ \E args \in ArgLists :
          /\ inp' = [inp EXCEPT !.args = args]
          /\ hasher' = HasherUpdate(hasher, Join(args))
          /\ pc' = "hash_env"
          /\ trace' = trace \o <<"get_relevant_arguments", "update:args">>
          /\ UNCHANGED <<cfg, capabilites, hash, allow_hard_links,
                         expected_files, result, disk, file_ids, return_code,
                         retval, exc, stdout, cache, added, cache0, prev>>

\* hasher.update(get_relevant_env_vars());
HashEnvVars ==
  /\ pc = "hash_env"
  /\ \/ Throws("get_relevant_env_vars")
     \/ \E puts \in EnvPuts :
          /\ inp' = [inp EXCEPT !.env = MapOf(puts)]
          /\ hasher' = HasherUpdateMap(hasher, MapOf(puts))
          /\ pc' = "hash_id"
          /\ trace' = trace \o <<"get_relevant_env_vars", "update:env">>
          /\ UNCHANGED <<cfg, capabilites, hash, allow_hard_links,
                         expected_files, result, disk, file_ids, return_code,
                         retval, exc, stdout, cache, added, cache0, prev>>

\* (a driver that leaves the program id out of the digest)
HashProgramIdSkipped ==
  /\ pc = "hash_id"
  /\ \/ Throws("get_program_id")
     \/ \E id \in ProgramIds :
          /\ inp' = [inp EXCEPT !.id = id]
          /\ pc' = "final"
          /\ trace' = trace \o <<"get_program_id">>
          /\ UNCHANGED <<cfg, capabilites, hasher, hash, allow_hard_links,
                         expected_files, result, disk, file_ids, return_code,
                         retval, exc, stdout, cache, added, cache0, prev>>

\* hasher.update(get_program_id());
HashProgramId ==
  /\ pc = "hash_id"
  /\ \/ Throws("get_program_id")
     \/ \E id \in ProgramIds :
          /\ inp' = [inp EXCEPT !.id = id]
          /\ hasher' = HasherUpdate(hasher, id)
          /\ pc' = "final"
          /\ trace' = trace \o <<"get_program_id", "update:id">>
          /\ UNCHANGED <<cfg, capabilites, hash, allow_hard_links,
                         expected_files, result, disk, file_ids, return_code,
                         retval, exc, stdout, cache, added, cache0, prev>>

\* const auto hash = hasher.final();
\* const auto allow_hard_links = config::hard_links() && capabilites.hard_links();
Finalize ==
  /\ pc = "final"
  /\ hash' = HasherFinal(hasher)
  /\ allow_hard_links' = (cfg.hard_links /\ capabilites.hard_links)
  /\ pc' = "build_files"
  /\ trace' = Append(trace, "final")
  /\ UNCHANGED <<cfg, capabilites, hasher, inp, expected_files, result, disk,
                 file_ids, return_code, retval, exc, stdout, cache, added,
                 cache0, prev>>

\* const auto expected_files = get_build_files();
GetBuildFiles ==
  /\ pc = "build_files"
  /\ \/ Throws("get_build_files")
     \/ \E files \in BuildFileMaps :
          /\ expected_files' = files
          /\ pc' = "lookup"
          /\ trace' = Append(trace, "get_build_files")
          /\ UNCHANGED <<cfg, capabilites, hasher, inp, hash,
                         allow_hard_links, result, disk, file_ids,
                         return_code, retval, exc, stdout, cache, added,
                         cache0, prev>>


\* cache_t::lookup on a hit: the listed files are written to their expected
\* paths.
Materialised(entry, files) ==
  {files[i].path : i \in {j \in DOMAIN files :
                            files[j].id \in Range(entry.file_ids)}}

\* (a driver that goes on to run the tool after a hit)
LookupWithoutReturn ==
  /\ pc = "lookup"
  /\ \/ Throws("lookup")
     \/ /\ CacheHas(cache, hash)
        /\ disk' = disk \cup Materialised(CacheGet(cache, hash), expected_files)
        /\ stdout' = Append(stdout, [kind |-> "replay",
                                     text |-> CacheGet(cache, hash).std_out])
        /\ return_code' = CacheGet(cache, hash).return_code
        /\ pc' = "run"
        /\ trace' = trace \o <<"lookup", "hit">>
        /\ UNCHANGED <<cfg, capabilites, hasher, inp, hash, allow_hard_links,
                       expected_files, result, file_ids, exc, cache, added,
                       cache0, prev, retval>>
     \/ /\ ~CacheHas(cache, hash)
        /\ stdout' = Log(stdout, cfg.debug, "INFO", "Cache miss")
        /\ pc' = "miss"
        /\ trace' = trace \o <<"lookup", "miss">>
        /\ UNCHANGED <<cfg, capabilites, hasher, inp, hash, allow_hard_links,
                       expected_files, result, disk, file_ids, return_code,
                       retval, exc, cache, added, cache0, prev>>

\* if (m_cache.lookup(hash, expected_files, allow_hard_links,
\*                    capabilites.create_target_dirs(), return_code)) {
\*   return true;
\* } else { debug::log(debug::INFO) << "Cache miss (" ... }
Lookup ==
  /\ pc = "lookup"
  /\ \/ Throws("lookup")
     \/ /\ CacheHas(cache, hash)
        /\ disk' = disk \cup Materialised(CacheGet(cache, hash), expected_files)
        /\ stdout' = Append(stdout, [kind |-> "replay",
                                     text |-> CacheGet(cache, hash).std_out])
        /\ return_code' = CacheGet(cache, hash).return_code
        /\ retval' = Returned(TRUE)
        /\ pc' = "done"
        /\ trace' = trace \o <<"lookup", "hit">>
        /\ UNCHANGED <<cfg, capabilites, hasher, inp, hash, allow_hard_links,
                       expected_files, result, file_ids, exc, cache, added,
                       cache0, prev>>
     \/ /\ ~CacheHas(cache, hash)
        /\ stdout' = Log(stdout, cfg.debug, "INFO", "Cache miss")
        /\ pc' = "miss"
        /\ trace' = trace \o <<"lookup", "miss">>
        /\ UNCHANGED <<cfg, capabilites, hasher, inp, hash, allow_hard_links,
                       expected_files, result, disk, file_ids, return_code,
                       retval, exc, cache, added, cache0, prev>>

\* (a terminate-on-miss mode that prints the paths and nothing after them)
TerminateOutputPathsOnly(files) == PathLines(files)

\* for (const auto& file : expected_files) std::cout << path << '\n';
\* std::cout << "Terminate on a miss!\n";
TerminateOutput(files) ==
  PathLines(files) \o <<[kind |-> "text", text |-> "Terminate on a miss!"]>>

\* (a terminate-on-miss mode that is never taken)
TerminateOnMissIgnored ==
  /\ pc = "miss"
  /\ pc' = "run"
  /\ UNCHANGED <<stdout, retval, cfg, capabilites, hasher, inp, hash,
                 allow_hard_links, expected_files, result, disk, file_ids,
                 return_code, exc, cache, trace, added, cache0, prev>>

\* if (config::terminate_on_miss()) { ...; std::exit(0); }
TerminateOnMiss ==
  /\ pc = "miss"
  /\ IF cfg.terminate_on_miss
     THEN /\ stdout' = stdout \o TerminateOutput(expected_files)
          /\ retval' = Exited(0)
          /\ pc' = "done"
     ELSE /\ pc' = "run"
          /\ UNCHANGED <<stdout, retval>>
  /\ UNCHANGED <<cfg, capabilites, hasher, inp, hash, allow_hard_links,
                 expected_files, result, disk, file_ids, return_code, exc,
                 cache, trace, added, cache0, prev>>

\* const auto result = run_for_miss();
\* The tool ends with any exit code and leaves any of the expected files.
RunForMiss ==
  /\ pc = "run"
  /\ \/ Throws("run_for_miss")
     \/ \E rc \in 0..MaxExitCode, out \in ToolOutputs,
           produced \in SUBSET Paths(expected_files) :
          /\ result' = [return_code |-> rc, std_out |-> out, std_err |-> ""]
          /\ disk' = produced
          /\ pc' = "filter"
          /\ trace' = Append(trace, "run_for_miss")
          /\ UNCHANGED <<cfg, capabilites, hasher, inp, hash,
                         allow_hard_links, expected_files, file_ids,
                         return_code, retval, exc, stdout, cache, added,
                         cache0, prev>>

\* (a filter step that can raise)
ExtractFileIdsCanThrow ==
  /\ pc = "filter"
  /\ \/ /\ file_ids' = FilterFileIds(expected_files, disk)
        /\ pc' = "add"
        /\ UNCHANGED <<exc, trace>>
     \/ /\ pc' = "catch"
        /\ exc' \in {"std", "other"}
        /\ trace' = Append(trace, "filter")
        /\ UNCHANGED file_ids
  /\ UNCHANGED <<cfg, capabilites, hasher, inp, hash, allow_hard_links,
                 expected_files, result, disk, return_code, retval,
                 stdout, cache, added, cache0, prev>>

\* std::vector<std::string> file_ids; for (file : expected_files) ...
ExtractFileIds ==
  /\ pc = "filter"
  /\ file_ids' = FilterFileIds(expected_files, disk)
  /\ pc' = "add"
  /\ UNCHANGED <<cfg, capabilites, hasher, inp, hash, allow_hard_links,
                 expected_files, result, disk, return_code, retval, exc,
                 stdout, cache, trace, added, cache0, prev>>

\* (a driver that caches every run)
ShouldAddAlways(res) == TRUE

\* if (result.return_code == 0)
ShouldAdd(res) == res.return_code = 0

\* const cache_entry_t entry(file_ids, config::compress() ? ALL : NONE,
\*                           result.std_out, result.std_err, result.return_code);
NewEntry(ids, compress, res) ==
  [file_ids |-> ids,
   comp_mode |-> IF compress THEN "ALL" ELSE "NONE",
   std_out |-> res.std_out,
   std_err |-> res.std_err,
   return_code |-> res.return_code]

\* if (result.return_code == 0) { ...; m_cache.add(hash, entry, expected_files,
\*                                                 allow_hard_links); }
AddToCache ==
  /\ pc = "add"
  /\ IF ShouldAdd(result)
     THEN /\ added' = NewEntry(file_ids, cfg.compress, result)
          /\ trace' = Append(trace, "add")
          /\ \/ /\ CacheAddCanSucceed(added', expected_files, disk)
                /\ cache' = CacheAdd(cache, hash, added')
                /\ pc' = "ret"
                /\ exc' = exc
             \/ /\ pc' = "catch"
                /\ exc' \in {"std", "other"}
                /\ cache' = cache
     ELSE /\ pc' = "ret"
          /\ UNCHANGED <<added, trace, cache, exc>>
  /\ UNCHANGED <<cfg, capabilites, hasher, inp, hash, allow_hard_links,
                 expected_files, result, disk, file_ids, return_code, retval,
                 stdout, cache0, prev>>

\* (a driver that reports success whatever the tool returned)
ReportedCodeZero(res) == 0

\* return_code = result.return_code;
ReportedCode(res) == res.return_code

\* return_code = result.return_code; return true;
ReturnResult ==
  /\ pc = "ret"
  /\ return_code' = ReportedCode(result)
  /\ retval' = Returned(TRUE)
  /\ pc' = "done"
  /\ UNCHANGED <<cfg, capabilites, hasher, inp, hash, allow_hard_links,
                 expected_files, result, disk, file_ids, exc, stdout, cache,
                 trace, added, cache0, prev>>

\* (catch clauses that let the exception go on to the caller)
CatchRethrows ==
  /\ pc = "catch"
  /\ retval' = [how |-> "throw"]
  /\ pc' = "done"
  /\ UNCHANGED <<stdout, cfg, capabilites, hasher, inp, hash,
                 allow_hard_links, expected_files, result, disk, file_ids,
                 return_code, exc, cache, trace, added, cache0, prev>>

\* } catch (std::exception& e) { debug::log(debug::DEBUG) << ...;
\* } catch (...) { debug::log(debug::ERROR) << "UNEXPECTED EXCEPTION"; }
\* return false;
Catch ==
  /\ pc = "catch"
  /\ stdout' = IF exc = "std"
               THEN Log(stdout, cfg.debug, "DEBUG", "Exception")
               ELSE Log(stdout, cfg.debug, "ERROR", "UNEXPECTED EXCEPTION")
  /\ retval' = Returned(FALSE)
  /\ pc' = "done"
  /\ UNCHANGED <<cfg, capabilites, hasher, inp, hash, allow_hard_links,
                 expected_files, result, disk, file_ids, return_code, exc,
                 cache, trace, added, cache0, prev>>

\* The next invocation: a new process, a new wrapper object, the same cache
\* and the same file system.
NewInvocation ==
  /\ pc = "done"
  /\ prev.n + 1 < MaxInvocations
  /\ prev' = [failed |-> IF result # NoResult /\ result.return_code # 0
                           THEN hash ELSE NoHash,
              n |-> prev.n + 1]
  /\ cache0' = cache
  /\ pc' = "enter"
  /\ cfg' \in Configs
  /\ capabilites' = Capabilities(<<>>)
  /\ hasher' = HasherInit
  /\ inp' = NoInput
  /\ hash' = NoHash
  /\ allow_hard_links' = FALSE
  /\ expected_files' = <<>>
  /\ result' = NoResult
  /\ file_ids' = <<>>
  /\ return_code' = 0
  /\ retval' = Running
  /\ exc' = None
  /\ stdout' = <<>>
  /\ trace' = <<>>
  /\ added' = NoEntry
  /\ disk' = {}
  /\ UNCHANGED cache

\* No wrapper operation has been called and none will be.
NoOutcome == [how |-> "none"]
MsvcNoOut ==
  [preprocess_source |-> NoOutcome, get_relevant_arguments |-> NoOutcome,
   get_relevant_env_vars |-> NoOutcome, get_program_id |-> NoOutcome,
   get_build_files |-> NoOutcome, ran_preprocessor |-> FALSE]
MsvcIdle ==
  /\ msvc_pc = "off"
  /\ m_args = <<>>
  /\ m_resolved_args = <<>>
  /\ msvc_env = [vars |-> {}, platform |-> "other", rsp |-> <<>>]
  /\ msvc_out = MsvcNoOut

\* No thread pool exists.
PoolIdle ==
  /\ m_queue = <<>>
  /\ m_pending_funcs = 0
  /\ m_terminate = FALSE
  /\ m_exception = 0
  /\ m_got_exception = FALSE
  /\ m_pending_funcs_mutex = "free"
  /\ tp_workers = <<>>
  /\ tp_client = [pc |-> "off"]
  /\ tp_waiters = <<>>
  /\ tp_tasks = <<>>
  /\ tp_recorded = <<>>

\* The deferred-close pool is not used.
IoIdle ==
  /\ s_thread_pool = <<>>
  /\ s_terminate = FALSE
  /\ s_fclose_queue = <<>>
  /\ io_main = [pc |-> "off"]
  /\ io_handles = <<>>
  /\ io_producer = [pc |-> "off"]

\* No remote store is configured.
RedisIdle ==
  /\ redis_store = <<>>
  /\ rd_writers = <<>>
  /\ rd_reader = [pc |-> "off"]
  /\ rd_adds = 0

\* No local store is in use.
StoreIdle ==
  /\ ls_fs = <<>>
  /\ ls_manifest = <<>>
  /\ ls_cap = 0
  /\ ls_procs = <<>>
  /\ ls_adds = [calls |-> 0]
  /\ ls_seen = "off"
  /\ ls_last = "off"
  /\ ls_s4 = 0 - 1

\* No provider exists.
LockIdle ==
  /\ m_queue_mutex = "free"
  /\ m_exception_mutex = "free"

ConnIdle ==
  /\ rc_ctx = "null"
  /\ rc_call = [op |-> "off"]

FpIdle ==
  /\ fpA = NoInput
  /\ fpB = NoInput
  /\ fpDone = <<>>
  /\ fpEdits = <<>>

Init == DriverInit /\ FpIdle /\ MsvcIdle /\ PoolIdle /\ IoIdle /\ RedisIdle /\ ConnIdle
  /\ StoreIdle /\ LockIdle

Next ==
  \/ (Enter /\ UNCHANGED nonDriverVars)
  \/ (ResolveArgs /\ UNCHANGED nonDriverVars)
  \/ (GetCapabilities /\ UNCHANGED nonDriverVars)
  \/ (HashSource /\ UNCHANGED nonDriverVars)
  \/ (HashArguments /\ UNCHANGED nonDriverVars)
  \/ (HashEnvVars /\ UNCHANGED nonDriverVars)
  \/ (HashProgramId /\ UNCHANGED nonDriverVars)
  \/ (Finalize /\ UNCHANGED nonDriverVars)
  \/ (GetBuildFiles /\ UNCHANGED nonDriverVars)
  \/ (Lookup /\ UNCHANGED nonDriverVars)
  \/ (TerminateOnMiss /\ UNCHANGED nonDriverVars)
  \/ (RunForMiss /\ UNCHANGED nonDriverVars)
  \/ (ExtractFileIds /\ UNCHANGED nonDriverVars)
  \/ (AddToCache /\ UNCHANGED nonDriverVars)
  \/ (ReturnResult /\ UNCHANGED nonDriverVars)
  \/ (Catch /\ UNCHANGED nonDriverVars)
  \/ (NewInvocation /\ UNCHANGED nonDriverVars)

Spec == Init /\ [][Next]_vars


----------------------------------------------------------------------------
(* Properties of handle_command (specification Spec).                      *)

Called(call) == call \in Range(trace)
IsPrefix(a, b) == Len(a) <= Len(b) /\ SubSeq(b, 1, Len(a)) = a
RanTool == result # NoResult

\* C1: when the tool run on a miss exits with a non-zero code, m_cache.add is
\* not called and the cache is left as the invocation found it; the next
\* invocation with the same hash does not hit.
C1_NoCacheOnFailure ==
  /\ (RanTool /\ result.return_code # 0) =>
       (~Called("add") /\ cache = cache0)
  /\ (prev.failed # NoHash /\ hash = prev.failed /\ Called("lookup")) =>
       ~Called("hit")

\* The invocation after a failed tool run has the same hash and misses.
C1_Witness ==
  prev.failed # NoHash /\ hash = prev.failed /\ Called("miss")

\* C2: on a hit handle_command returns true with the stored exit code,
\* without having run the tool and without having added an entry.
C2_HitServedFromCache ==
  Called("hit") =>
    /\ pc = "done"
    /\ retval = Returned(TRUE)
    /\ CacheHas(cache0, hash)
    /\ return_code = CacheGet(cache0, hash).return_code
    /\ ~Called("run_for_miss")
    /\ ~Called("add")
    /\ cache = cache0

\* A hit on an entry stored by an earlier invocation.
C2_Witness ==
  Called("hit") /\ retval = Returned(TRUE) /\ prev.n > 0

\* C3 as stated: once the tool has been run, handle_command returns true and
\* reports the tool's exit code, whatever the insert step does.
C3_AsStated ==
  (pc = "done" /\ RanTool) =>
    (retval = Returned(TRUE) /\ return_code = result.return_code)

\* C3, amended: once the tool has been run, handle_command returns true and
\* reports the tool's exit code unless m_cache.add raises; if it raises,
\* handle_command returns false and the return code is 1.
C3_ExitCodeUnlessAddRaises ==
  (pc = "done" /\ RanTool) =>
    IF exc = None
    THEN retval = Returned(TRUE) /\ return_code = result.return_code
    ELSE /\ retval = Returned(FALSE)
         /\ return_code = 1
         /\ trace[Len(trace)] = "add"
         /\ result.return_code = 0

\* A failed tool run whose exit code is reported.
C3_Witness ==
  /\ pc = "done"
  /\ RanTool
  /\ result.return_code = MaxExitCode
  /\ return_code = MaxExitCode
  /\ retval = Returned(TRUE)

\* C4: no exception leaves handle_command: after a failure of a wrapper
\* operation, of the lookup or of the add, handle_command returns false and
\* the return code is 1.
C4_FailuresAreCaught ==
  /\ retval.how # "throw"
  /\ (pc = "done" /\ exc # None) =>
       (retval = Returned(FALSE) /\ return_code = 1)
  /\ (pc = "done" /\ retval = Returned(FALSE)) => exc # None

\* The add raised something that is no std::exception, and it was caught.
C4_Witness ==
  /\ pc = "done"
  /\ exc = "other"
  /\ trace[Len(trace)] = "add"
  /\ retval = Returned(FALSE)

\* C5 as stated: the entry handed to the cache lists exactly the file ids of
\* the expected files that exist after the run.
C5_AsStated ==
  Called("add") =>
    Range(added.file_ids) =
      {expected_files[i].id :
         i \in {j \in DOMAIN expected_files : expected_files[j].path \in disk}}

\* C5, amended: the entry handed to the cache lists, in map order, exactly
\* the file ids of the expected files that are required or exist after the
\* run: an absent optional file is left out, and a listed file that does not
\* exist is a required one.
C5_RequiredOrExisting ==
  Called("add") =>
    /\ result.return_code = 0
    /\ Range(added.file_ids) =
         {expected_files[i].id :
            i \in {j \in DOMAIN expected_files :
                     expected_files[j].required
                       \/ expected_files[j].path \in disk}}
    /\ \A i \in DOMAIN expected_files :
         (~expected_files[i].required /\ expected_files[i].path \notin disk)
           => expected_files[i].id \notin Range(added.file_ids)
    /\ \A i, j \in DOMAIN added.file_ids : i # j =>
         added.file_ids[i] # added.file_ids[j]

\* An entry was handed over after a run that left the optional file out.
C5_Witness ==
  /\ Called("add")
  /\ Len(expected_files) = 2
  /\ disk = {"a.o"}
  /\ added.file_ids = <<"object">>

DigestCalls ==
  SelectSeq(trace, LAMBDA c : c \in {"update:src", "update:args", "update:env",
                                     "update:id", "final", "lookup"})

\* C6: the digest is fed the preprocessed source, the joined relevant
\* arguments, the env-var map and the program id, in this order, and is
\* finalised once, after the four and before the lookup.
C6_DigestOrder ==
  /\ IsPrefix(DigestCalls, <<"update:src", "update:args", "update:env",
                             "update:id", "final", "lookup">>)
  /\ Called("final") =>
       hash = [digest_of |->
                 inp.src \o Join(inp.args)
                   \o HasherUpdateMap(<<>>, inp.env) \o inp.id]

\* The lookup was made with a finalised digest.
C6_Witness == Called("lookup") /\ hash # NoHash

\* C9: in terminate-on-miss mode a miss ends the process with exit code 0,
\* the tool is not run and nothing is added; a hit is served as usual.
C9_TerminateOnMiss ==
  /\ (cfg.terminate_on_miss /\ Called("miss")) =>
       /\ pc \in {"miss", "done"}
       /\ pc = "done" => retval = Exited(0)
       /\ ~Called("run_for_miss")
       /\ ~Called("add")
       /\ cache = cache0
  /\ (cfg.terminate_on_miss /\ Called("hit")) =>
       /\ retval = Returned(TRUE)
       /\ return_code = CacheGet(cache0, hash).return_code
  /\ retval.how = "exit" => (cfg.terminate_on_miss /\ Called("miss"))

\* The process has exited on a miss.
C9_Witness ==
  cfg.terminate_on_miss /\ Called("miss") /\ retval = Exited(0)

ExpectedPathLines ==
  [i \in DOMAIN expected_files |->
     [kind |-> "path", text |-> expected_files[i].path]]

\* C10 as stated: in terminate-on-miss mode on a miss, stdout holds the
\* expected output paths, one per line, and nothing else.
C10_AsStated ==
  retval.how = "exit" => stdout = ExpectedPathLines

\* C10, amended: in terminate-on-miss mode on a miss, stdout ends with the
\* expected output paths, one per line in file id order, followed by the
\* line "Terminate on a miss!"; before them it holds only log lines.
C10_PathsThenNotice ==
  retval.how = "exit" =>
    \E n \in 0..Len(stdout) :
      /\ \A i \in 1..n : stdout[i].kind = "log"
      /\ SubSeq(stdout, n + 1, Len(stdout)) =
           ExpectedPathLines
             \o <<[kind |-> "text", text |-> "Terminate on a miss!"]>>

\* The process has exited on a miss with two expected files.
C10_Witness ==
  retval.how = "exit" /\ Len(expected_files) = 2

\* preprocess_source() threw: the call was made and its value never reached
\* hasher.update.
PreprocessFailed ==
  exc # None /\ Called("preprocess_source") /\ ~Called("update:src")

\* C11: when preprocess_source fails, handle_command makes no cache lookup,
\* no tool run and no cache insert, leaves the cache as it found it, and
\* returns false.
C11_UnsupportedPassesThrough ==
  PreprocessFailed =>
    /\ ~Called("lookup") /\ ~Called("run_for_miss") /\ ~Called("add")
    /\ ~RanTool
    /\ cache = cache0
    /\ retval \in {Running, Returned(FALSE)}
    /\ (pc = "done" => retval = Returned(FALSE))

\* handle_command has returned false after preprocess_source threw a
\* std::exception.
C11_Witness ==
  PreprocessFailed /\ exc = "std" /\ retval = Returned(FALSE)

\* C13: hard links are allowed, at the lookup and at the add, only if the
\* configuration enables them and the wrapper's capability list holds
\* "hard_links"; with an empty list or only unknown strings they never are.
C13_HardLinksNeedBoth ==
  /\ ~Called("final") => ~allow_hard_links
  /\ Called("final") =>
       (allow_hard_links <=>
          (cfg.hard_links /\ "hard_links" \in Range(inp.caps)))
  /\ ((Called("lookup") \/ Called("add")) /\ allow_hard_links) =>
       (cfg.hard_links /\ "hard_links" \in Range(inp.caps))
  /\ (Range(inp.caps) \cap {"hard_links"} = {}) => ~allow_hard_links

\* With hard links configured, a wrapper that declared only an unknown
\* capability string has its entry added without hard links.
C13_Witness ==
  /\ Called("add") /\ cfg.hard_links /\ inp.caps = <<"bogus">>
  /\ ~allow_hard_links

\* The calls of run_for_miss in a trace.
ToolRuns(calls) == Cardinality({i \in DOMAIN calls : calls[i] = "run_for_miss"})

----------------------------------------------------------------------------
(* The fingerprints of two invocations A and B, B's wrapper outputs being  *)
(* A's with one change (specification SpecFP).                             *)

\* Strings "", "a", "aa", ...
FpStrings == {[i \in 1..k |-> 97] : k \in 0..MaxLen}
\* Arguments: "", "a", "b", "a b".
FpArguments == {<<>>, <<97>>, <<98>>, <<97, 32, 98>>}
\* Relevant argument lists; the first argument names the program.
FpArgLists == UNION {[1..n -> FpArguments] : n \in 1..MaxArgs}
FpEnvKeys == {ENV_CL, ENV__CL_}
FpPut == FpEnvKeys \X FpStrings
\* The env vars a wrapper puts into its map, in the order it visits them.
FpPuts ==
  {<<>>} \cup {<<p>> : p \in FpPut}
         \cup {<<p, q>> : <<p, q>> \in {pq \in FpPut \X FpPut : pq[1][1] # pq[2][1]}}
FpInputs == [src : FpStrings, args : FpArgLists, puts : FpPuts, id : FpStrings]

\* handle_command's digest for the wrapper outputs w.
FingerprintOf(w) == Fingerprint(w.src, w.args, MapOf(w.puts), w.id)

FpInit ==
  /\ fpA \in FpInputs
  /\ fpB = fpA
  /\ fpDone = <<>>
  /\ fpEdits = <<>>

\* Both invocations compute their digest.
FpCompute ==
  /\ fpDone = <<>>
  /\ fpDone' = <<FingerprintOf(fpA), FingerprintOf(fpB)>>
  /\ UNCHANGED <<fpA, fpB, fpEdits>>

\* The next pair of invocations: the one just made, and one with the
\* wrapper outputs w.
FpNextPair(what, w) ==
  /\ fpDone # <<>>
  /\ fpA' = fpB
  /\ fpB' = w
  /\ fpDone' = <<>>
  /\ fpEdits' = <<what>>

\* preprocess_source() returns something else.
FpChangeSource ==
  \E s \in FpStrings \ {fpB.src} :
    FpNextPair("src", [fpB EXCEPT !.src = s])

\* One relevant argument is replaced, added or dropped.
FpChangeArgument ==
  \/ \E i \in DOMAIN fpB.args : \E a \in FpArguments \ {fpB.args[i]} :
       FpNextPair("arg", [fpB EXCEPT !.args[i] = a])
  \/ /\ Len(fpB.args) < MaxArgs
     /\ \E a \in FpArguments :
          FpNextPair("arg", [fpB EXCEPT !.args = Append(fpB.args, a)])
  \/ /\ Len(fpB.args) > 1
     /\ FpNextPair("arg", [fpB EXCEPT
                             !.args = SubSeq(fpB.args, 1, Len(fpB.args) - 1)])

\* One relevant env var gets another value, is set or is unset.
FpChangeEnvVar ==
  \/ \E i \in DOMAIN fpB.puts : \E v \in FpStrings \ {fpB.puts[i][2]} :
       FpNextPair("env", [fpB EXCEPT !.puts[i] = <<fpB.puts[i][1], v>>])
  \/ \E k \in FpEnvKeys \ {fpB.puts[i][1] : i \in DOMAIN fpB.puts} :
       \E v \in FpStrings :
         FpNextPair("env", [fpB EXCEPT !.puts = Append(fpB.puts, <<k, v>>)])
  \/ \E i \in DOMAIN fpB.puts :
       FpNextPair("env", [fpB EXCEPT
                            !.puts = SelectSeq(fpB.puts,
                                               LAMBDA p : p # fpB.puts[i])])

\* The wrapper visits the same env vars in the opposite order.
FpReorderEnvVars ==
  /\ Len(fpB.puts) = 2
  /\ FpNextPair("order", [fpB EXCEPT !.puts = <<fpB.puts[2], fpB.puts[1]>>])

\* get_program_id() returns something else.
FpChangeProgramId ==
  \E id \in FpStrings \ {fpB.id} :
    FpNextPair("id", [fpB EXCEPT !.id = id])

FpNext ==
  \/ (FpCompute /\ UNCHANGED nonFpVars)
  \/ (FpChangeSource /\ UNCHANGED nonFpVars)
  \/ (FpChangeArgument /\ UNCHANGED nonFpVars)
  \/ (FpChangeEnvVar /\ UNCHANGED nonFpVars)
  \/ (FpReorderEnvVars /\ UNCHANGED nonFpVars)
  \/ (FpChangeProgramId /\ UNCHANGED nonFpVars)

InitFP == DriverIdle /\ FpInit /\ MsvcIdle /\ PoolIdle /\ IoIdle /\ RedisIdle /\ ConnIdle
  /\ StoreIdle /\ LockIdle

SpecFP == InitFP /\ [][FpNext]_vars

\* The wrapper returns a preprocessed source that is one byte shorter and a
\* first relevant argument that starts with that byte, or the other way
\* round, within the strings and arguments of the model (specification
\* SpecFPShift).
FpMoveByte ==
  \/ /\ fpB.src # <<>>
     /\ <<fpB.src[Len(fpB.src)]>> \o fpB.args[1] \in FpArguments
     /\ FpNextPair("move",
          [fpB EXCEPT
             !.src = SubSeq(fpB.src, 1, Len(fpB.src) - 1),
             !.args[1] = <<fpB.src[Len(fpB.src)]>> \o fpB.args[1]])
  \/ /\ fpB.args[1] # <<>>
     /\ Append(fpB.src, fpB.args[1][1]) \in FpStrings
     /\ Tail(fpB.args[1]) \in FpArguments
     /\ FpNextPair("move",
          [fpB EXCEPT
             !.src = Append(fpB.src, fpB.args[1][1]),
             !.args[1] = Tail(fpB.args[1])])

FpNextShift ==
  \/ (FpCompute /\ UNCHANGED nonFpVars)
  \/ (FpChangeSource /\ UNCHANGED nonFpVars)
  \/ (FpChangeArgument /\ UNCHANGED nonFpVars)
  \/ (FpChangeEnvVar /\ UNCHANGED nonFpVars)
  \/ (FpReorderEnvVars /\ UNCHANGED nonFpVars)
  \/ (FpChangeProgramId /\ UNCHANGED nonFpVars)
  \/ (FpMoveByte /\ UNCHANGED nonFpVars)

SpecFPShift == InitFP /\ [][FpNextShift]_vars

\* What handle_command feeds to the digest, component by component.
FpComponents(w) == <<w.src, Join(w.args), MapOf(w.puts), w.id>>

\* C37 as stated: two invocations whose preprocessed source, joined relevant
\* arguments, env-var map or program id differ feed different byte streams
\* to the digest.
C37_AsStated ==
  (fpDone # <<>> /\ FpComponents(fpA) # FpComponents(fpB)) =>
    fpDone[1].digest_of # fpDone[2].digest_of

\* The components of the wrapper outputs in which A and B differ.
FpDiffering ==
  {c \in {"src", "args", "env", "id"} :
     \/ c = "src" /\ fpA.src # fpB.src
     \/ c = "args" /\ fpA.args # fpB.args
     \/ c = "env" /\ MapOf(fpA.puts) # MapOf(fpB.puts)
     \/ c = "id" /\ fpA.id # fpB.id}

\* C7: two invocations whose wrapper outputs differ in exactly one of the
\* preprocessed source, the relevant arguments, the relevant env vars and the
\* program id have different fingerprints.
C7_OneChangeChangesFingerprint ==
  (fpDone # <<>> /\ Cardinality(FpDiffering) = 1) => fpDone[1] # fpDone[2]

\* Two fingerprints were computed for wrapper outputs that differ in the
\* value of CL alone.
C7_Witness ==
  /\ fpDone # <<>>
  /\ FpDiffering = {"env"}
  /\ Len(fpA.puts) = 2
  /\ Len(fpB.puts) = 2

\* C8: the fingerprint depends on the wrapper outputs alone, and not on the
\* order in which the env vars were put into the map.
C8_EnvOrderIrrelevant ==
  (/\ fpDone # <<>>
   /\ fpA.src = fpB.src /\ fpA.args = fpB.args /\ fpA.id = fpB.id
   /\ Range(fpA.puts) = Range(fpB.puts)) => fpDone[1] = fpDone[2]

\* Two fingerprints were computed for the same env vars put in opposite
\* orders.
C8_Witness ==
  /\ fpDone # <<>>
  /\ Len(fpA.puts) = 2
  /\ fpB.puts = <<fpA.puts[2], fpA.puts[1]>>
  /\ fpA.puts[1][2] # fpA.puts[2][2]

----------------------------------------------------------------------------
(* The MSVC wrapper (msvc_wrapper.cpp).  A std::string is a sequence of    *)
(* one-character strings.                                                  *)

\* Number of arguments after the compiler path.
MaxCmdArgs == 3

UpperChars ==
  <<"A", "B", "C", "D", "E", "F", "G", "H", "I", "J", "K", "L", "M", "N",
  "O", "P", "Q", "R", "S", "T", "U", "V", "W", "X", "Y", "Z">>
LowerChars ==
  <<"a", "b", "c", "d", "e", "f", "g", "h", "i", "j", "k", "l", "m", "n",
  "o", "p", "q", "r", "s", "t", "u", "v", "w", "x", "y", "z">>

\* lower_case(), one character at a time.
LowerCaseChar(ch) ==
  IF \E i \in DOMAIN UpperChars : UpperChars[i] = ch
  THEN LowerChars[CHOOSE i \in DOMAIN UpperChars : UpperChars[i] = ch]
  ELSE ch
LowerCase(str) == [i \in 1..Len(str) |-> LowerCaseChar(str[i])]

\* std::string::substr(pos, n) and substr(pos), for pos <= size().
SubStr(str, pos, n) ==
  SubSeq(str, pos + 1, IF pos + n > Len(str) THEN Len(str) ELSE pos + n)
SubStrFrom(str, pos) == SubSeq(str, pos + 1, Len(str))

\* std::string::rfind for one of several characters: 0 when there is none.
LastIndexOf(str, chars) ==
  LET at == {i \in 1..Len(str) : str[i] \in chars}
  IN IF at = {} THEN 0 ELSE CHOOSE i \in at : \A j \in at : j <= i

\* file::get_extension: the text from the last '.' of the file part on.
GetExtension(path) ==
  LET dot == LastIndexOf(path, {"."})
      sep == LastIndexOf(path, {"/", "\\"})
  IN IF dot = 0 \/ dot < sep THEN <<>> ELSE SubStrFrom(path, dot - 1)

\* file::get_file_part: the text after the last path separator.
GetFilePart(path) == SubStrFrom(path, LastIndexOf(path, {"/", "\\"}))

RECURSIVE Split(_, _)
\* split(str, delimiter)
Split(str, ch) ==
  LET at == {i \in 1..Len(str) : str[i] = ch}
  IN IF at = {} THEN <<str>>
     ELSE LET first == CHOOSE i \in at : \A j \in at : i <= j
          IN <<SubSeq(str, 1, first - 1)>> \o Split(SubStrFrom(str, first), ch)

StartsWith(str, sub_str) ==
  Len(str) >= Len(sub_str) /\ SubSeq(str, 1, Len(sub_str)) = sub_str

IsObjectFile(file_ext) ==
  LET ext == LowerCase(file_ext)
  IN ext = <<".", "o", "b", "j">> \/ ext = <<".", "o">>

IsFlag(str, size) == size >= 1 /\ str # <<>> /\ str[1] \in {"/", "-"}

ArgStartsWith(str, sub_str) ==
  /\ IsFlag(str, Len(sub_str))
  /\ Len(str) >= Len(sub_str) + 1
  /\ SubStr(str, 1, Len(sub_str)) = sub_str

ArgEquals(str, sub_str) ==
  /\ IsFlag(str, Len(sub_str))
  /\ Len(str) >= Len(sub_str) + 1
  /\ SubStrFrom(str, 1) = sub_str

IsSourceFile(arg) ==
  LowerCase(GetExtension(arg)) \in
    {<<".", "c", "p", "p">>, <<".", "c", "c">>, <<".", "c", "x", "x">>,
     <<".", "c">>}

DropLeadingColon(s) ==
  IF Len(s) > 0 /\ s[1] = ":" THEN SubStrFrom(s, 1) ELSE s

HASH_VERSION == <<"1">>

\* The outcome of a wrapper operation.
Value(v) == [how |-> "value", value |-> v]
Thrown(what) == [how |-> "throw", what |-> what]

\* The command lines, environments and platforms the wrapper is run with.
CompilerPaths ==
  {<<"V", "\\", "b", "\\", "H", "o", "s", "t", "X", "\\", "Y", "\\",
     "c", "l", ".", "e", "x", "e">>,
   <<"H", "o", "s", "t", "X", "\\", "Y", "\\", "c", "l", ".", "e", "x", "e">>,
   <<"c", "l", ".", "e", "x", "e">>}
CmdArgs ==
  {<<"/", "c">>, <<"/", "F", "o", "a", ".", "o", "b", "j">>,
   <<"-", "F", "o", ":", "b", ".", "O", "B", "J">>, <<"/", "F", "o", "o", "u", "t">>,
   <<"/", "Z", "i">>, <<"x", ".", "c", "p", "p">>, <<"@", "r">>}
CmdLines == UNION {[1..n -> CmdArgs] : n \in 0..MaxCmdArgs}
\* What the response file "r" holds: nothing (or it cannot be opened), or
\* two arguments.
ResponseFiles == {<<>>, <<<<"/", "c">>, <<"-", "Z", "I">>>>}
Environments ==
  {{}, {"VSCMD_ARG_HOST_ARCH"}, {"VSCMD_ARG_HOST_ARCH", "VSCMD_ARG_TGT_ARCH"},
   {"VSCMD_ARG_HOST_ARCH", "VSCMD_ARG_TGT_ARCH", "VCToolsVersion", "CL"}}
\* "win32" with the file version of the compiler readable, "win32-nofile"
\* with GetFileVersion failing, "other" for a build without _WIN32.
Platforms == {"other", "win32", "win32-nofile"}
\* The value of an environment variable that is set.
EnvValue(name) ==
  IF name = "VCToolsVersion" THEN <<"1", "4">> ELSE <<"e">>

RECURSIVE ResolvedArgs(_, _)
\* msvc_wrapper_t::resolve_args: an argument "@file" is replaced by the
\* arguments of the file's lines, any other argument is kept.
ResolvedArgs(args, rsp) ==
  IF args = <<>> THEN <<>>
  ELSE (IF SubStr(Head(args), 0, 1) = <<"@">> THEN rsp ELSE <<Head(args)>>)
       \o ResolvedArgs(Tail(args), rsp)

RECURSIVE CheckCommandIgnoresPdb(_, _, _)
\* (a test that lets /Zi and /ZI pass)
CheckCommandIgnoresPdb(args, is_object_compilation, has_object_output) ==
  IF args = <<>>
  THEN IF ~is_object_compilation \/ ~has_object_output
       THEN "Unsupported complation command."
       ELSE "ok"
  ELSE LET arg == Head(args)
       IN IF ArgEquals(arg, <<"c">>)
          THEN CheckCommandIgnoresPdb(Tail(args), TRUE, has_object_output)
          ELSE IF ArgStartsWith(arg, <<"F", "o">>)
                  /\ IsObjectFile(GetExtension(arg))
          THEN CheckCommandIgnoresPdb(Tail(args), is_object_compilation, TRUE)
          ELSE CheckCommandIgnoresPdb(Tail(args), is_object_compilation,
                                      has_object_output)

RECURSIVE CheckCommand(_, _, _)
\* The loop and the test that open msvc_wrapper_t::preprocess_source: "ok"
\* or the message of the exception thrown.
CheckCommand(args, is_object_compilation, has_object_output) ==
  IF args = <<>>
  THEN IF ~is_object_compilation \/ ~has_object_output
       THEN "Unsupported complation command."
       ELSE "ok"
  ELSE LET arg == Head(args)
       IN IF ArgEquals(arg, <<"c">>)
          THEN CheckCommand(Tail(args), TRUE, has_object_output)
          ELSE IF ArgStartsWith(arg, <<"F", "o">>)
                  /\ IsObjectFile(GetExtension(arg))
          THEN CheckCommand(Tail(args), is_object_compilation, TRUE)
          ELSE IF ArgEquals(arg, <<"Z", "i">>) \/ ArgEquals(arg, <<"Z", "I">>)
          THEN "PDB generation is not supported."
          ELSE CheckCommand(Tail(args), is_object_compilation,
                            has_object_output)

IsUnwantedArg(arg) ==
  LET first_two_chars == SubStr(arg, 0, 2)
  IN \/ ArgEquals(first_two_chars, <<"F">>) /\ ~ArgEquals(arg, <<"F">>)
     \/ ArgEquals(first_two_chars, <<"I">>)
     \/ ArgEquals(first_two_chars, <<"D">>)
     \/ IsSourceFile(arg)

\* msvc_wrapper_t::get_relevant_arguments, for a non-empty command line.
GetRelevantArguments(args) ==
  <<GetFilePart(args[1])>>
    \o SelectSeq(Tail(args), LAMBDA arg : ~IsUnwantedArg(arg))

\* msvc_wrapper_t::get_relevant_env_vars
GetRelevantEnvVars(env) ==
  (IF "CL" \in env THEN << <<"CL", EnvValue("CL")>> >> ELSE <<>>)
    \o (IF "_CL_" \in env THEN << <<"_CL_", EnvValue("_CL_")>> >> ELSE <<>>)

\* GetCompilerVersion(compiler_path)
GetCompilerVersion(compiler_path, env, platform) ==
  LET path_split == Split(compiler_path, "\\")
      path_num_parts == Len(path_split)
      host_in_path ==
        /\ "VSCMD_ARG_HOST_ARCH" \notin env
        /\ path_num_parts >= 3
        /\ StartsWith(path_split[path_num_parts - 2], <<"H", "o", "s", "t">>)
      path_valid == host_in_path
      host_arch ==
        IF "VSCMD_ARG_HOST_ARCH" \in env THEN EnvValue("VSCMD_ARG_HOST_ARCH")
        ELSE IF host_in_path
        THEN SubStrFrom(path_split[path_num_parts - 2], 4)
        ELSE <<>>
      target_arch ==
        IF "VSCMD_ARG_TGT_ARCH" \in env THEN EnvValue("VSCMD_ARG_TGT_ARCH")
        ELSE IF path_valid THEN path_split[path_num_parts - 1]
        ELSE <<>>
  IN IF host_arch = <<>> \/ target_arch = <<>>
     THEN Thrown("Failed to get compiler host/target architecture.")
     ELSE IF platform # "other"
     THEN IF platform = "win32"
          THEN Value([host_arch |-> host_arch, target_arch |-> target_arch,
                      file_version |-> <<"1", "9">>])
          ELSE Thrown("Failed to get compiler file version.")
     ELSE IF "VCToolsVersion" \in env
     THEN Value([host_arch |-> host_arch, target_arch |-> target_arch,
                 file_version |-> EnvValue("VCToolsVersion")])
     ELSE IF path_num_parts >= 5 /\ path_valid
     THEN Value([host_arch |-> host_arch, target_arch |-> target_arch,
                 file_version |-> path_split[path_num_parts - 4]])
     ELSE Thrown("Failed to get compiler version.")

\* msvc_wrapper_t::get_program_id
GetProgramId(compiler_path, env, platform) ==
  LET version == GetCompilerVersion(compiler_path, env, platform)
  IN IF version.how = "throw" THEN version
     ELSE Value(HASH_VERSION \o version.value.host_arch
                  \o version.value.target_arch \o version.value.file_version)

RECURSIVE BuildFilesLoop(_, _)
\* The loop of msvc_wrapper_t::get_build_files: the std::map built, or the
\* exception thrown at a second object file.
BuildFilesLoop(args, files) ==
  IF args = <<>> THEN Value(files)
  ELSE LET arg == Head(args)
       IN IF ArgStartsWith(arg, <<"F", "o">>)
             /\ IsObjectFile(GetExtension(arg))
          THEN IF files # <<>>
               THEN Thrown("Only a single target object file can be specified.")
               ELSE BuildFilesLoop(
                      Tail(args),
                      << <<"object",
                           [path |-> DropLeadingColon(SubStrFrom(arg, 3)),
                            required |-> TRUE]>> >>)
          ELSE BuildFilesLoop(Tail(args), files)

\* msvc_wrapper_t::get_build_files
BuildFilesOf(args) ==
  LET found == BuildFilesLoop(args, <<>>)
  IN IF found = Value(<<>>)
     THEN Thrown("Unable to get the target object file.")
     ELSE found

\* The wrapper is constructed with a command line.
MsvcInit ==
  /\ msvc_pc = "resolve"
  /\ \E path \in CompilerPaths, args \in CmdLines : m_args = <<path>> \o args
  /\ m_resolved_args = <<>>
  /\ \E env \in Environments, platform \in Platforms, rsp \in ResponseFiles :
       msvc_env = [vars |-> env, platform |-> platform, rsp |-> rsp]
  /\ msvc_out = MsvcNoOut

\* Where the driver goes after an operation: to the next one, or to its
\* catch clause.
MsvcAfter(outcome, next) == IF outcome.how = "throw" THEN "failed" ELSE next

\* resolve_args()
MsvcResolveArgs ==
  /\ msvc_pc = "resolve"
  /\ m_resolved_args' = ResolvedArgs(m_args, msvc_env.rsp)
  /\ msvc_pc' = "preprocess_source"
  /\ UNCHANGED <<m_args, msvc_env, msvc_out>>

\* preprocess_source(): the preprocessor is run on a supported command and
\* exits with 0 or not.
MsvcPreprocessSource ==
  /\ msvc_pc = "preprocess_source"
  /\ LET check == CheckCommand(m_resolved_args, FALSE, FALSE)
     IN \E return_code_ \in 0..1, std_out \in Sources :
          LET outcome ==
                IF check # "ok" THEN Thrown(check)
                ELSE IF return_code_ # 0
                THEN Thrown("Preprocessing command was unsuccessful.")
                ELSE Value(std_out)
          IN /\ msvc_out' = [msvc_out EXCEPT
                               !.preprocess_source = outcome,
                               !.ran_preprocessor = (check = "ok")]
             /\ msvc_pc' = MsvcAfter(outcome, "get_relevant_arguments")
  /\ UNCHANGED <<m_args, m_resolved_args, msvc_env>>

\* get_relevant_arguments()
MsvcGetRelevantArguments ==
  /\ msvc_pc = "get_relevant_arguments"
  /\ msvc_out' = [msvc_out EXCEPT !.get_relevant_arguments =
                    Value(GetRelevantArguments(m_resolved_args))]
  /\ msvc_pc' = "get_relevant_env_vars"
  /\ UNCHANGED <<m_args, m_resolved_args, msvc_env>>

\* get_relevant_env_vars()
MsvcGetRelevantEnvVars ==
  /\ msvc_pc = "get_relevant_env_vars"
  /\ msvc_out' = [msvc_out EXCEPT !.get_relevant_env_vars =
                    Value(GetRelevantEnvVars(msvc_env.vars))]
  /\ msvc_pc' = "get_program_id"
  /\ UNCHANGED <<m_args, m_resolved_args, msvc_env>>

\* get_program_id()
MsvcGetProgramId ==
  /\ msvc_pc = "get_program_id"
  /\ LET outcome == GetProgramId(m_args[1], msvc_env.vars, msvc_env.platform)
     IN /\ msvc_out' = [msvc_out EXCEPT !.get_program_id = outcome]
        /\ msvc_pc' = MsvcAfter(outcome, "get_build_files")
  /\ UNCHANGED <<m_args, m_resolved_args, msvc_env>>

\* get_build_files()
MsvcGetBuildFiles ==
  /\ msvc_pc = "get_build_files"
  /\ LET outcome == BuildFilesOf(m_resolved_args)
     IN /\ msvc_out' = [msvc_out EXCEPT !.get_build_files = outcome]
        /\ msvc_pc' = MsvcAfter(outcome, "done")
  /\ UNCHANGED <<m_args, m_resolved_args, msvc_env>>

InitMsvc == DriverIdle /\ FpIdle /\ MsvcInit /\ PoolIdle /\ IoIdle /\ RedisIdle /\ ConnIdle
  /\ StoreIdle /\ LockIdle

NextMsvc ==
  \/ (MsvcResolveArgs /\ UNCHANGED nonMsvcVars)
  \/ (MsvcPreprocessSource /\ UNCHANGED nonMsvcVars)
  \/ (MsvcGetRelevantArguments /\ UNCHANGED nonMsvcVars)
  \/ (MsvcGetRelevantEnvVars /\ UNCHANGED nonMsvcVars)
  \/ (MsvcGetProgramId /\ UNCHANGED nonMsvcVars)
  \/ (MsvcGetBuildFiles /\ UNCHANGED nonMsvcVars)

SpecMsvc == InitMsvc /\ [][NextMsvc]_vars

\* The wrapper operations the driver calls after preprocess_source.
LaterOperations ==
  {"get_relevant_arguments", "get_relevant_env_vars", "get_program_id",
   "get_build_files"}

\* C12 as stated: on a command line on which preprocess_source succeeds,
\* none of get_relevant_arguments, get_relevant_env_vars, get_program_id
\* and get_build_files throws.
C12_AsStated ==
  msvc_out.preprocess_source.how = "value" =>
    \A op \in LaterOperations : msvc_out[op].how # "throw"

\* An option given with either of the two prefixes cl.exe accepts.
IsOption(arg, name) == arg = <<"/">> \o name \/ arg = <<"-">> \o name

\* The command line has the option c (compile to an object file).
HasCompileOnly(args) ==
  \E i \in DOMAIN args : IsOption(args[i], <<"c">>)

\* The command line has an Fo option whose file name ends in .obj or .o,
\* in any letter case.
HasObjectOutput(args) ==
  \E i \in DOMAIN args :
    /\ Len(args[i]) >= 3
    /\ args[i][1] \in {"/", "-"}
    /\ <<args[i][2], args[i][3]>> = <<"F", "o">>
    /\ LowerCase(GetExtension(args[i])) \in
         {<<".", "o", "b", "j">>, <<".", "o">>}

\* The command line asks for a program database.
HasPdbOption(args) ==
  \E i \in DOMAIN args :
    IsOption(args[i], <<"Z", "i">>) \/ IsOption(args[i], <<"Z", "I">>)

\* C38: preprocess_source throws without running the preprocessor when the
\* resolved command line has no option c, no Fo option that names an object
\* file, or an option Zi or ZI; it runs the preprocessor on every other
\* command line, and then returns its output or throws because it exited
\* with a code other than 0.
C38_UnsupportedCommandsAreRefused ==
  msvc_out.preprocess_source # NoOutcome =>
    LET supported == /\ HasCompileOnly(m_resolved_args)
                     /\ HasObjectOutput(m_resolved_args)
                     /\ ~HasPdbOption(m_resolved_args)
    IN /\ msvc_out.ran_preprocessor = supported
       /\ ~supported =>
            /\ msvc_out.preprocess_source.how = "throw"
            /\ msvc_out.preprocess_source.what #
                 "Preprocessing command was unsuccessful."
       /\ supported =>
            \/ msvc_out.preprocess_source.how = "value"
            \/ msvc_out.preprocess_source =
                 Thrown("Preprocessing command was unsuccessful.")

\* A command line with /c and an Fo option that names an object file, whose
\* response file adds -ZI: preprocess_source refused it.
C38_Witness ==
  /\ msvc_out.preprocess_source = Thrown("PDB generation is not supported.")
  /\ ~msvc_out.ran_preprocessor
  /\ HasCompileOnly(m_args)
  /\ HasObjectOutput(m_args)
  /\ ~HasPdbOption(m_args)
  /\ HasPdbOption(m_resolved_args)

----------------------------------------------------------------------------
(* The thread pool (thread_pool.hpp).  A step of a thread is what it does  *)
(* between two acquisitions of a mutex; m_queue_mutex and                  *)
(* m_exception_mutex are never held from one step to the next.  A function *)
(* is known by the order in which it was enqueued: 1, 2, ...               *)

\* Worker threads of the pool.
NumWorkers == 2
\* Functions enqueued during the life of the pool.
MaxTasks == 3

Workers == 1..NumWorkers
Tasks == 1..MaxTasks

\* Threads other than the owner that call wait().
NumOtherWaiters == 1
OtherWaiters == 1..NumOtherWaiters

\* thread_pool_t::thread_pool_t: the workers are started.
PoolStart(waiters) ==
  /\ tp_waiters = waiters
  /\ m_queue = <<>>
  /\ m_pending_funcs = 0
  /\ m_terminate = FALSE
  /\ m_exception = 0
  /\ m_got_exception = FALSE
  /\ m_pending_funcs_mutex = "free"
  /\ tp_workers = [w \in Workers |-> [pc |-> "idle", fun |-> 0]]
  /\ tp_client = [pc |-> "idle", fun |-> 0, waits |-> <<>>, end |-> "none"]
  /\ tp_tasks = [t \in Tasks |-> "none"]
  /\ tp_recorded = <<>>

\* A pool that only its owner uses.
PoolInit == PoolStart(<<>>)

\* The threads blocked in m_queue_cond.wait.
QueueWaiters == {w \in Workers : tp_workers[w].pc = "waiting"}

\* m_queue_cond.notify_one(): one of the waiting workers, if there is one,
\* leaves the wait and goes back to testing the loop condition.
NotifyOneWorker(workers) ==
  IF QueueWaiters = {} THEN {workers}
  ELSE {[workers EXCEPT ![w].pc = "idle"] : w \in QueueWaiters}

\* m_queue_cond.notify_all()
NotifyAllWorkers(workers) ==
  [w \in Workers |->
     IF workers[w].pc = "waiting" THEN [workers[w] EXCEPT !.pc = "idle"]
     ELSE workers[w]]

\* m_pending_funcs_cond.notify_one(): the owner, if it is blocked in
\* wait(), goes back to testing m_pending_funcs.
NotifyOneWaiter(client) ==
  IF client.pc = "waiting" THEN [client EXCEPT !.pc = "woken"] ELSE client

\* The two most recent returns of wait().
LastTwo(waits) ==
  IF Len(waits) <= 2 THEN waits ELSE SubSeq(waits, Len(waits) - 1, Len(waits))

\* The owner is between two calls on the pool.
ClientBetweenCalls == tp_client.pc \in {"idle", "after_wait"}

\* (an enqueue that does not count the function)
TpEnqueueNoCount ==
  /\ tp_client.pc \in {"idle", "after_wait"}
  /\ m_pending_funcs_mutex = "free"
  /\ \E t \in Tasks :
       /\ tp_tasks[t] = "none"
       /\ \A u \in Tasks : u < t => tp_tasks[u] # "none"
       /\ tp_tasks' = [tp_tasks EXCEPT ![t] = "counted"]
       /\ tp_client' = [tp_client EXCEPT !.pc = "enqueue", !.fun = t]
  /\ m_pending_funcs_mutex' = "client"
  /\ UNCHANGED <<m_queue, m_pending_funcs, m_terminate, m_exception,
                 m_got_exception, tp_workers, tp_recorded, tp_waiters>>

\* enqueue(), up to the acquisition of m_queue_mutex: m_pending_funcs_mutex
\* is taken and the function is counted.
TpEnqueueCount ==
  /\ ClientBetweenCalls
  /\ m_pending_funcs_mutex = "free"
  /\ \E t \in Tasks :
       /\ tp_tasks[t] = "none"
       /\ \A u \in Tasks : u < t => tp_tasks[u] # "none"
       /\ tp_tasks' = [tp_tasks EXCEPT ![t] = "counted"]
       /\ tp_client' = [tp_client EXCEPT !.pc = "enqueue", !.fun = t]
  /\ m_pending_funcs_mutex' = "client"
  /\ m_pending_funcs' = m_pending_funcs + 1
  /\ UNCHANGED <<m_queue, m_terminate, m_exception, m_got_exception,
                 tp_workers, tp_recorded,
                 tp_waiters>>

\* enqueue(), the rest: the function is put at the back of the queue, one
\* worker is notified and both mutexes are released.
TpEnqueuePush ==
  /\ tp_client.pc = "enqueue"
  /\ m_queue' = Append(m_queue, tp_client.fun)
  /\ tp_tasks' = [tp_tasks EXCEPT ![tp_client.fun] = "queued"]
  /\ tp_workers' \in NotifyOneWorker(tp_workers)
  /\ m_pending_funcs_mutex' = "free"
  /\ tp_client' = [tp_client EXCEPT !.pc = "idle", !.fun = 0]
  /\ UNCHANGED <<m_pending_funcs, m_terminate, m_exception, m_got_exception,
                 tp_recorded,
                 tp_waiters>>

\* (a wait() that does not look at m_pending_funcs)
TpWaitWithoutLoop ==
  /\ tp_client.pc \in {"idle", "after_wait", "woken"}
  /\ m_pending_funcs_mutex = "free"
  /\ tp_client' =
       [tp_client EXCEPT
          !.pc = "after_wait",
          !.waits = LastTwo(Append(@,
                      [rethrown |-> IF m_got_exception THEN m_exception
                                    ELSE 0,
                       recorded |-> Len(tp_recorded)]))]
  /\ m_got_exception' = FALSE
  /\ UNCHANGED <<m_queue, m_pending_funcs, m_terminate, m_exception,
                 m_pending_funcs_mutex, tp_workers, tp_tasks, tp_recorded,
                 tp_waiters>>

\* wait(): with m_pending_funcs_mutex held, either m_pending_funcs > 0 and
\* the thread blocks in m_pending_funcs_cond.wait, or
\* throw_pending_exception() is called and wait() returns or rethrows.
TpWait ==
  /\ tp_client.pc \in {"idle", "after_wait", "woken"}
  /\ m_pending_funcs_mutex = "free"
  /\ IF m_pending_funcs > 0
     THEN /\ tp_client' = [tp_client EXCEPT !.pc = "waiting"]
          /\ UNCHANGED m_got_exception
     ELSE /\ tp_client' =
               [tp_client EXCEPT
                  !.pc = "after_wait",
                  !.waits = LastTwo(Append(@,
                              [rethrown |-> IF m_got_exception
                                            THEN m_exception ELSE 0,
                               recorded |-> Len(tp_recorded)]))]
          /\ m_got_exception' = FALSE
  /\ UNCHANGED <<m_queue, m_pending_funcs, m_terminate, m_exception,
                 m_pending_funcs_mutex, tp_workers, tp_tasks, tp_recorded,
                 tp_waiters>>

\* ~thread_pool_t(), first block: m_terminate = true; notify_all().
TpDestructorSignal ==
  /\ ClientBetweenCalls
  /\ m_terminate' = TRUE
  /\ tp_workers' = NotifyAllWorkers(tp_workers)
  /\ tp_client' = [tp_client EXCEPT !.pc = "join"]
  /\ UNCHANGED <<m_queue, m_pending_funcs, m_exception, m_got_exception,
                 m_pending_funcs_mutex, tp_tasks, tp_recorded,
                 tp_waiters>>

\* ~thread_pool_t(), the rest: every worker is joined, then
\* throw_pending_exception() is called.  The destructor is not declared
\* noexcept(false), so an exception that leaves it ends the process in
\* std::terminate instead of reaching the caller.
TpDestructorJoin ==
  /\ tp_client.pc = "join"
  /\ \A w \in Workers : tp_workers[w].pc = "exited"
  /\ tp_client' = [tp_client EXCEPT
                     !.pc = "destroyed",
                     !.end = IF m_got_exception THEN "terminate"
                             ELSE "normal"]
  /\ m_got_exception' = FALSE
  /\ UNCHANGED <<m_queue, m_pending_funcs, m_terminate, m_exception,
                 m_pending_funcs_mutex, tp_workers, tp_tasks, tp_recorded,
                 tp_waiters>>

\* (a worker that empties the queue before it looks at m_terminate)
TpWorkerTakeDrains(w) ==
  /\ tp_workers[w].pc = "idle"
  /\ IF m_queue # <<>>
     THEN /\ tp_workers' = [tp_workers EXCEPT ![w].pc = "run",
                                              ![w].fun = Head(m_queue)]
          /\ m_queue' = Tail(m_queue)
          /\ tp_tasks' = [tp_tasks EXCEPT ![Head(m_queue)] = "running"]
     ELSE /\ tp_workers' = [tp_workers EXCEPT
                              ![w].pc = IF m_terminate THEN "exited"
                                        ELSE "waiting"]
          /\ UNCHANGED <<m_queue, tp_tasks>>
  /\ UNCHANGED <<m_pending_funcs, m_terminate, m_exception, m_got_exception,
                 m_pending_funcs_mutex, tp_client, tp_recorded,
                 tp_waiters>>

\* (a worker that takes the function enqueued last)
TpWorkerTakeBack(w) ==
  /\ tp_workers[w].pc = "idle"
  /\ IF m_queue = <<>> /\ ~m_terminate
     THEN /\ tp_workers' = [tp_workers EXCEPT ![w].pc = "waiting"]
          /\ UNCHANGED <<m_queue, tp_tasks>>
     ELSE IF m_terminate
     THEN /\ tp_workers' = [tp_workers EXCEPT ![w].pc = "exited"]
          /\ UNCHANGED <<m_queue, tp_tasks>>
     ELSE /\ tp_workers' = [tp_workers EXCEPT ![w].pc = "run",
                                              ![w].fun = m_queue[Len(m_queue)]]
          /\ m_queue' = SubSeq(m_queue, 1, Len(m_queue) - 1)
          /\ tp_tasks' = [tp_tasks EXCEPT ![m_queue[Len(m_queue)]] = "running"]
  /\ UNCHANGED <<m_pending_funcs, m_terminate, m_exception, m_got_exception,
                 m_pending_funcs_mutex, tp_client, tp_recorded,
                 tp_waiters>>

\* worker(), top of the loop: with m_queue_mutex held the worker blocks in
\* m_queue_cond.wait, or leaves the loop, or takes the front of the queue.
TpWorkerTake(w) ==
  /\ tp_workers[w].pc = "idle"
  /\ IF m_queue = <<>> /\ ~m_terminate
     THEN /\ tp_workers' = [tp_workers EXCEPT ![w].pc = "waiting"]
          /\ UNCHANGED <<m_queue, tp_tasks>>
     ELSE IF m_terminate
     THEN /\ tp_workers' = [tp_workers EXCEPT ![w].pc = "exited"]
          /\ UNCHANGED <<m_queue, tp_tasks>>
     ELSE /\ tp_workers' = [tp_workers EXCEPT ![w].pc = "run",
                                              ![w].fun = Head(m_queue)]
          /\ m_queue' = Tail(m_queue)
          /\ tp_tasks' = [tp_tasks EXCEPT ![Head(m_queue)] = "running"]
  /\ UNCHANGED <<m_pending_funcs, m_terminate, m_exception, m_got_exception,
                 m_pending_funcs_mutex, tp_client, tp_recorded,
                 tp_waiters>>

\* try { fun(); }: the function returns or throws.
TpWorkerRun(w) ==
  /\ tp_workers[w].pc = "run"
  /\ \E throws \in BOOLEAN :
       /\ tp_workers' = [tp_workers EXCEPT
                           ![w].pc = IF throws THEN "catch" ELSE "finish"]
       /\ tp_tasks' = [tp_tasks EXCEPT
                         ![tp_workers[w].fun] = IF throws THEN "failed"
                                                ELSE "done"]
  /\ UNCHANGED <<m_queue, m_pending_funcs, m_terminate, m_exception,
                 m_got_exception, m_pending_funcs_mutex, tp_client,
                 tp_recorded,
                 tp_waiters>>

\* (a catch clause that keeps the first exception stored)
TpWorkerCatchKeepsFirst(w) ==
  /\ tp_workers[w].pc = "catch"
  /\ m_exception' = IF m_got_exception THEN m_exception
                    ELSE tp_workers[w].fun
  /\ m_got_exception' = TRUE
  /\ tp_recorded' = Append(tp_recorded, tp_workers[w].fun)
  /\ tp_workers' = [tp_workers EXCEPT ![w].pc = "finish"]
  /\ UNCHANGED <<m_queue, m_pending_funcs, m_terminate,
                 m_pending_funcs_mutex, tp_client, tp_tasks,
                 tp_waiters>>

\* catch (...) { m_exception = std::current_exception();
\*               m_got_exception = true; }
TpWorkerCatch(w) ==
  /\ tp_workers[w].pc = "catch"
  /\ m_exception' = tp_workers[w].fun
  /\ m_got_exception' = TRUE
  /\ tp_recorded' = Append(tp_recorded, tp_workers[w].fun)
  /\ tp_workers' = [tp_workers EXCEPT ![w].pc = "finish"]
  /\ UNCHANGED <<m_queue, m_pending_funcs, m_terminate,
                 m_pending_funcs_mutex, tp_client, tp_tasks,
                 tp_waiters>>

\* --m_pending_funcs; m_pending_funcs_cond.notify_one(): one of the threads
\* blocked in wait(), if there is one, goes back to testing
\* m_pending_funcs.
TpWorkerFinish(w) ==
  /\ tp_workers[w].pc = "finish"
  /\ m_pending_funcs_mutex = "free"
  /\ m_pending_funcs' = m_pending_funcs - 1
  /\ \/ /\ tp_client.pc # "waiting"
        /\ \A i \in DOMAIN tp_waiters : tp_waiters[i] # "waiting"
        /\ UNCHANGED <<tp_client, tp_waiters>>
     \/ /\ tp_client.pc = "waiting"
        /\ tp_client' = NotifyOneWaiter(tp_client)
        /\ UNCHANGED tp_waiters
     \/ /\ \E i \in DOMAIN tp_waiters :
             /\ tp_waiters[i] = "waiting"
             /\ tp_waiters' = [tp_waiters EXCEPT ![i] = "woken"]
        /\ UNCHANGED tp_client
  /\ tp_workers' = [tp_workers EXCEPT ![w].pc = "idle", ![w].fun = 0]
  /\ UNCHANGED <<m_queue, m_terminate, m_exception, m_got_exception,
                 m_pending_funcs_mutex, tp_tasks, tp_recorded>>

\* wait() called by another thread than the owner: it blocks in
\* m_pending_funcs_cond.wait, or calls throw_pending_exception() and
\* returns or rethrows.
TpOtherWait(i) ==
  /\ tp_waiters[i] \in {"idle", "woken"}
  /\ m_pending_funcs_mutex = "free"
  /\ IF m_pending_funcs > 0
     THEN /\ tp_waiters' = [tp_waiters EXCEPT ![i] = "waiting"]
          /\ UNCHANGED m_got_exception
     ELSE /\ tp_waiters' = [tp_waiters EXCEPT ![i] = "returned"]
          /\ m_got_exception' = FALSE
  /\ UNCHANGED <<m_queue, m_pending_funcs, m_terminate, m_exception,
                 m_pending_funcs_mutex, tp_workers, tp_client, tp_tasks,
                 tp_recorded>>

InitPool == DriverIdle /\ FpIdle /\ MsvcIdle /\ PoolInit /\ IoIdle /\ RedisIdle /\ ConnIdle
  /\ StoreIdle /\ LockIdle

NextPool ==
  \/ (TpEnqueueCount /\ UNCHANGED nonPoolVars)
  \/ (TpEnqueuePush /\ UNCHANGED nonPoolVars)
  \/ (TpWait /\ UNCHANGED nonPoolVars)
  \/ (TpDestructorSignal /\ UNCHANGED nonPoolVars)
  \/ (TpDestructorJoin /\ UNCHANGED nonPoolVars)
  \/ (\E w \in Workers : TpWorkerTake(w) /\ UNCHANGED nonPoolVars)
  \/ (\E w \in Workers : TpWorkerRun(w) /\ UNCHANGED nonPoolVars)
  \/ (\E w \in Workers : TpWorkerCatch(w) /\ UNCHANGED nonPoolVars)
  \/ (\E w \in Workers : TpWorkerFinish(w) /\ UNCHANGED nonPoolVars)

SpecPool == InitPool /\ [][NextPool]_vars

\* A pool on which other threads than the owner call wait() too, and
\* which is not destroyed.  A thread that can take a step again and again
\* takes it in the end.
InitPoolShared ==
  DriverIdle /\ FpIdle /\ MsvcIdle /\ IoIdle /\ RedisIdle /\ ConnIdle
  /\ StoreIdle /\ LockIdle /\ PoolStart([i \in OtherWaiters |-> "idle"])

TpWorkerStep(w) ==
  TpWorkerTake(w) \/ TpWorkerRun(w) \/ TpWorkerCatch(w) \/ TpWorkerFinish(w)

NextPoolShared ==
  \/ (TpEnqueueCount /\ UNCHANGED nonPoolVars)
  \/ (TpEnqueuePush /\ UNCHANGED nonPoolVars)
  \/ (TpWait /\ UNCHANGED nonPoolVars)
  \/ (\E w \in Workers : TpWorkerStep(w) /\ UNCHANGED nonPoolVars)
  \/ (\E i \in OtherWaiters : TpOtherWait(i) /\ UNCHANGED nonPoolVars)

PoolFairness ==
  /\ SF_vars(TpEnqueuePush /\ UNCHANGED nonPoolVars)
  /\ SF_vars(tp_client.pc = "woken" /\ TpWait /\ UNCHANGED nonPoolVars)
  /\ \A w \in Workers : SF_vars(TpWorkerStep(w) /\ UNCHANGED nonPoolVars)
  /\ \A i \in OtherWaiters : SF_vars(TpOtherWait(i) /\ UNCHANGED nonPoolVars)

SpecPoolShared == InitPoolShared /\ [][NextPoolShared]_vars /\ PoolFairness

\* The pool with each acquisition of a mutex as a step of its own
\* (specification SpecPoolLocks).  A std::unique_lock takes its mutex where
\* it is declared and gives it back at unlock(), in a condition variable's
\* wait, or at the end of its scope.
WorkerName == <<"w1", "w2", "w3", "w4">>

PoolLocksInit == PoolStart(<<>>) /\ LockIdle

\* The owner calls enqueue, wait or the destructor.
LkCall ==
  /\ ClientBetweenCalls
  /\ \E call \in {"enqueue_enter", "wait_enter", "dtor_enter"} :
       /\ call = "enqueue_enter" => \E t \in Tasks : tp_tasks[t] = "none"
       /\ tp_client' = [tp_client EXCEPT !.pc = call]
  /\ UNCHANGED <<m_queue, m_pending_funcs, m_terminate, m_exception,
                 m_got_exception, m_pending_funcs_mutex, tp_workers,
                 tp_waiters, tp_tasks, tp_recorded, lockVars>>

\* enqueue(): pending_funcs_lock(m_pending_funcs_mutex); ++m_pending_funcs;
LkEnqueueLockPending ==
  /\ tp_client.pc = "enqueue_enter"
  /\ m_pending_funcs_mutex = "free"
  /\ m_pending_funcs_mutex' = "client"
  /\ m_pending_funcs' = m_pending_funcs + 1
  /\ \E t \in Tasks :
       /\ tp_tasks[t] = "none"
       /\ \A u \in Tasks : u < t => tp_tasks[u] # "none"
       /\ tp_tasks' = [tp_tasks EXCEPT ![t] = "counted"]
       /\ tp_client' = [tp_client EXCEPT !.pc = "enqueue", !.fun = t]
  /\ UNCHANGED <<m_queue, m_terminate, m_exception, m_got_exception,
                 tp_workers, tp_waiters, tp_recorded, lockVars>>

\* enqueue(): queue_lock(m_queue_mutex), with m_pending_funcs_mutex held.
LkEnqueueLockQueue ==
  /\ tp_client.pc = "enqueue"
  /\ m_queue_mutex = "free"
  /\ m_queue_mutex' = "client"
  /\ tp_client' = [tp_client EXCEPT !.pc = "enqueue_push"]
  /\ UNCHANGED <<m_queue, m_pending_funcs, m_terminate, m_exception,
                 m_got_exception, m_pending_funcs_mutex, tp_workers,
                 tp_waiters, tp_tasks, tp_recorded, m_exception_mutex>>

\* enqueue(): m_queue.emplace(fun); m_queue_cond.notify_one(); both locks
\* end with the function's scope.
LkEnqueuePush ==
  /\ tp_client.pc = "enqueue_push"
  /\ m_queue' = Append(m_queue, tp_client.fun)
  /\ tp_tasks' = [tp_tasks EXCEPT ![tp_client.fun] = "queued"]
  /\ tp_workers' \in NotifyOneWorker(tp_workers)
  /\ m_queue_mutex' = "free"
  /\ m_pending_funcs_mutex' = "free"
  /\ tp_client' = [tp_client EXCEPT !.pc = "idle", !.fun = 0]
  /\ UNCHANGED <<m_pending_funcs, m_terminate, m_exception, m_got_exception,
                 tp_waiters, tp_recorded, m_exception_mutex>>

\* wait(): lock(m_pending_funcs_mutex), on entry and again when
\* m_pending_funcs_cond.wait is left.
LkWaitLock ==
  /\ tp_client.pc \in {"wait_enter", "woken"}
  /\ m_pending_funcs_mutex = "free"
  /\ m_pending_funcs_mutex' = "client"
  /\ tp_client' = [tp_client EXCEPT !.pc = "wait_test"]
  /\ UNCHANGED <<m_queue, m_pending_funcs, m_terminate, m_exception,
                 m_got_exception, tp_workers, tp_waiters, tp_tasks,
                 tp_recorded, lockVars>>

\* wait(): while (m_pending_funcs > 0) m_pending_funcs_cond.wait(lock), which
\* gives the mutex back while it blocks; then throw_pending_exception().
LkWaitTest ==
  /\ tp_client.pc = "wait_test"
  /\ m_pending_funcs_mutex' = "free"
  /\ IF m_pending_funcs > 0
     THEN /\ tp_client' = [tp_client EXCEPT !.pc = "waiting"]
          /\ UNCHANGED m_got_exception
     ELSE /\ tp_client' = [tp_client EXCEPT !.pc = "after_wait"]
          /\ m_got_exception' = FALSE
  /\ UNCHANGED <<m_queue, m_pending_funcs, m_terminate, m_exception,
                 tp_workers, tp_waiters, tp_tasks, tp_recorded, lockVars>>

\* ~thread_pool_t(): queue_lock(m_queue_mutex)
LkDestructorLock ==
  /\ tp_client.pc = "dtor_enter"
  /\ m_queue_mutex = "free"
  /\ m_queue_mutex' = "client"
  /\ tp_client' = [tp_client EXCEPT !.pc = "dtor_signal"]
  /\ UNCHANGED <<m_queue, m_pending_funcs, m_terminate, m_exception,
                 m_got_exception, m_pending_funcs_mutex, tp_workers,
                 tp_waiters, tp_tasks, tp_recorded, m_exception_mutex>>

\* ~thread_pool_t(): m_terminate = true; m_queue_cond.notify_all(); end of
\* the block.
LkDestructorSignal ==
  /\ tp_client.pc = "dtor_signal"
  /\ m_terminate' = TRUE
  /\ tp_workers' = NotifyAllWorkers(tp_workers)
  /\ m_queue_mutex' = "free"
  /\ tp_client' = [tp_client EXCEPT !.pc = "join"]
  /\ UNCHANGED <<m_queue, m_pending_funcs, m_exception, m_got_exception,
                 m_pending_funcs_mutex, tp_waiters, tp_tasks, tp_recorded,
                 m_exception_mutex>>

\* worker(): queue_lock(m_queue_mutex), at the top of the loop and again
\* when m_queue_cond.wait is left.
LkWorkerLockQueue(w) ==
  /\ tp_workers[w].pc = "idle"
  /\ m_queue_mutex = "free"
  /\ m_queue_mutex' = WorkerName[w]
  /\ tp_workers' = [tp_workers EXCEPT ![w].pc = "locked"]
  /\ UNCHANGED <<m_queue, m_pending_funcs, m_terminate, m_exception,
                 m_got_exception, m_pending_funcs_mutex, tp_client,
                 tp_waiters, tp_tasks, tp_recorded, m_exception_mutex>>

\* (a worker that calls the function with m_queue_mutex still held)
LkWorkerTestKeepsLock(w) ==
  /\ tp_workers[w].pc = "locked"
  /\ IF m_queue = <<>> /\ ~m_terminate
     THEN /\ tp_workers' = [tp_workers EXCEPT ![w].pc = "waiting"]
          /\ m_queue_mutex' = "free"
          /\ UNCHANGED <<m_queue, tp_tasks>>
     ELSE IF m_terminate
     THEN /\ tp_workers' = [tp_workers EXCEPT ![w].pc = "exited"]
          /\ m_queue_mutex' = "free"
          /\ UNCHANGED <<m_queue, tp_tasks>>
     ELSE /\ tp_workers' = [tp_workers EXCEPT ![w].pc = "run",
                                              ![w].fun = Head(m_queue)]
          /\ m_queue' = Tail(m_queue)
          /\ tp_tasks' = [tp_tasks EXCEPT ![Head(m_queue)] = "running"]
          /\ UNCHANGED m_queue_mutex
  /\ UNCHANGED <<m_pending_funcs, m_terminate, m_exception, m_got_exception,
                 m_pending_funcs_mutex, tp_client, tp_waiters, tp_recorded,
                 m_exception_mutex>>

\* worker(), with m_queue_mutex held: the worker blocks in
\* m_queue_cond.wait, which gives the mutex back; or it leaves the loop and
\* the lock ends with its scope; or it takes the front of the queue and
\* calls queue_lock.unlock().
LkWorkerTest(w) ==
  /\ tp_workers[w].pc = "locked"
  /\ m_queue_mutex' = "free"
  /\ IF m_queue = <<>> /\ ~m_terminate
     THEN /\ tp_workers' = [tp_workers EXCEPT ![w].pc = "waiting"]
          /\ UNCHANGED <<m_queue, tp_tasks>>
     ELSE IF m_terminate
     THEN /\ tp_workers' = [tp_workers EXCEPT ![w].pc = "exited"]
          /\ UNCHANGED <<m_queue, tp_tasks>>
     ELSE /\ tp_workers' = [tp_workers EXCEPT ![w].pc = "run",
                                              ![w].fun = Head(m_queue)]
          /\ m_queue' = Tail(m_queue)
          /\ tp_tasks' = [tp_tasks EXCEPT ![Head(m_queue)] = "running"]
  /\ UNCHANGED <<m_pending_funcs, m_terminate, m_exception, m_got_exception,
                 m_pending_funcs_mutex, tp_client, tp_waiters, tp_recorded,
                 m_exception_mutex>>

\* catch (...): exception_lock(m_exception_mutex)
LkWorkerLockException(w) ==
  /\ tp_workers[w].pc = "catch"
  /\ m_exception_mutex = "free"
  /\ m_exception_mutex' = WorkerName[w]
  /\ tp_workers' = [tp_workers EXCEPT ![w].pc = "catching"]
  /\ UNCHANGED <<m_queue, m_pending_funcs, m_terminate, m_exception,
                 m_got_exception, m_pending_funcs_mutex, tp_client,
                 tp_waiters, tp_tasks, tp_recorded, m_queue_mutex>>

\* catch (...): the exception is stored; the lock ends with the handler.
LkWorkerCatch(w) ==
  /\ tp_workers[w].pc = "catching"
  /\ m_exception' = tp_workers[w].fun
  /\ m_got_exception' = TRUE
  /\ m_exception_mutex' = "free"
  /\ tp_workers' = [tp_workers EXCEPT ![w].pc = "finish"]
  /\ UNCHANGED <<m_queue, m_pending_funcs, m_terminate,
                 m_pending_funcs_mutex, tp_client, tp_waiters, tp_tasks,
                 tp_recorded, m_queue_mutex>>

\* worker(): pending_funcs_lock(m_pending_funcs_mutex)
LkWorkerLockPending(w) ==
  /\ tp_workers[w].pc = "finish"
  /\ m_pending_funcs_mutex = "free"
  /\ m_pending_funcs_mutex' = WorkerName[w]
  /\ tp_workers' = [tp_workers EXCEPT ![w].pc = "finishing"]
  /\ UNCHANGED <<m_queue, m_pending_funcs, m_terminate, m_exception,
                 m_got_exception, tp_client, tp_waiters, tp_tasks,
                 tp_recorded, lockVars>>

\* worker(): --m_pending_funcs; m_pending_funcs_cond.notify_one(); the lock
\* ends with the loop body.
LkWorkerFinish(w) ==
  /\ tp_workers[w].pc = "finishing"
  /\ m_pending_funcs' = m_pending_funcs - 1
  /\ tp_client' = NotifyOneWaiter(tp_client)
  /\ m_pending_funcs_mutex' = "free"
  /\ tp_workers' = [tp_workers EXCEPT ![w].pc = "idle", ![w].fun = 0]
  /\ UNCHANGED <<m_queue, m_terminate, m_exception, m_got_exception,
                 tp_waiters, tp_tasks, tp_recorded, lockVars>>

InitPoolLocks ==
  DriverIdle /\ FpIdle /\ MsvcIdle /\ IoIdle /\ RedisIdle /\ ConnIdle
  /\ StoreIdle /\ PoolLocksInit

NextPoolLocks ==
  \/ (LkCall /\ UNCHANGED nonPoolLockVars)
  \/ (LkEnqueueLockPending /\ UNCHANGED nonPoolLockVars)
  \/ (LkEnqueueLockQueue /\ UNCHANGED nonPoolLockVars)
  \/ (LkEnqueuePush /\ UNCHANGED nonPoolLockVars)
  \/ (LkWaitLock /\ UNCHANGED nonPoolLockVars)
  \/ (LkWaitTest /\ UNCHANGED nonPoolLockVars)
  \/ (LkDestructorLock /\ UNCHANGED nonPoolLockVars)
  \/ (LkDestructorSignal /\ UNCHANGED nonPoolLockVars)
  \/ (TpDestructorJoin /\ UNCHANGED nonPoolVars)
  \/ (\E w \in Workers : LkWorkerLockQueue(w) /\ UNCHANGED nonPoolLockVars)
  \/ (\E w \in Workers : LkWorkerTest(w) /\ UNCHANGED nonPoolLockVars)
  \/ (\E w \in Workers : TpWorkerRun(w) /\ UNCHANGED nonPoolVars)
  \/ (\E w \in Workers : LkWorkerLockException(w) /\ UNCHANGED nonPoolLockVars)
  \/ (\E w \in Workers : LkWorkerCatch(w) /\ UNCHANGED nonPoolLockVars)
  \/ (\E w \in Workers : LkWorkerLockPending(w) /\ UNCHANGED nonPoolLockVars)
  \/ (\E w \in Workers : LkWorkerFinish(w) /\ UNCHANGED nonPoolLockVars)

SpecPoolLocks == InitPoolLocks /\ [][NextPoolLocks]_vars

----------------------------------------------------------------------------
(* Properties of the thread pool (specification SpecPool).                 *)

\* The functions that were enqueued and have not finished executing.
Unfinished == {t \in Tasks : tp_tasks[t] \in {"counted", "queued", "running"}}

\* The latest return of wait(), and the number of exceptions that had been
\* stored when the one before it returned.
ThisWait == tp_client.waits[Len(tp_client.waits)]
RecordedBefore ==
  IF Len(tp_client.waits) = 2 THEN tp_client.waits[1].recorded ELSE 0

\* C14: when wait() has returned, normally or by rethrowing, no function
\* enqueued before is still queued or running.
C14_WaitMeansAllFinished ==
  tp_client.pc = "after_wait" =>
    /\ Unfinished = {}
    /\ m_queue = <<>>
    /\ \A w \in Workers : tp_workers[w].pc \notin {"run", "catch"}

\* wait() has rethrown after two functions, one of which threw, and has
\* returned normally after a third one.
C14_Witness ==
  /\ tp_client.pc = "after_wait"
  /\ Len(tp_client.waits) = 2
  /\ tp_client.waits[1].rethrown # 0
  /\ tp_client.waits[2].rethrown = 0
  /\ \A t \in 1..3 : tp_tasks[t] \in {"done", "failed"}

\* C15 as stated: after a function has thrown, the other functions still
\* run and the pending counter still reaches zero, and the failure is
\* rethrown by the next wait() or by the destructor.
C15_AsStated ==
  /\ tp_client.pc = "after_wait" =>
       /\ Unfinished = {} /\ m_pending_funcs = 0
       /\ ThisWait.recorded > RecordedBefore => ThisWait.rethrown # 0
  /\ \A w \in Workers :
       tp_workers[w].pc = "exited" => m_terminate
  /\ tp_client.pc = "destroyed" => tp_client.end \in {"normal", "rethrow"}

\* C16: when functions have failed since the last wait(), wait() rethrows
\* the exception that was stored last and clears it; a wait() with no
\* failure since the wait() before it rethrows nothing.
C16_LastFailureOnce ==
  tp_client.pc = "after_wait" =>
    /\ ~m_got_exception
    /\ ThisWait.recorded > RecordedBefore =>
         ThisWait.rethrown = tp_recorded[ThisWait.recorded]
    /\ ThisWait.recorded = RecordedBefore => ThisWait.rethrown = 0

\* Two functions failed, wait() rethrew the failure stored second, and the
\* wait() after it returned normally.
C16_Witness ==
  /\ tp_client.pc = "after_wait"
  /\ Len(tp_client.waits) = 2
  /\ tp_client.waits[1].recorded = 2
  /\ tp_client.waits[1].rethrown = tp_recorded[2]
  /\ tp_client.waits[2] = [rethrown |-> 0, recorded |-> 2]

\* The functions that a worker has taken from the queue.
Dequeued == {t \in Tasks : tp_tasks[t] \in {"running", "done", "failed"}}

\* C30: the functions leave the queue in the order in which they were
\* enqueued: the queue holds the functions not yet taken, oldest first,
\* every function enqueued before a function that was taken has been
\* taken, and no two workers hold the same function.
C30_FifoAndTakenOnce ==
  /\ \A i, j \in DOMAIN m_queue : i < j => m_queue[i] < m_queue[j]
  /\ {m_queue[i] : i \in DOMAIN m_queue} =
       {t \in Tasks : tp_tasks[t] = "queued"}
  /\ \A t, u \in Tasks : (t < u /\ u \in Dequeued) => t \in Dequeued
  /\ \A w \in Workers :
       tp_workers[w].pc \in {"run", "catch", "finish"} =>
         /\ tp_workers[w].fun \in Dequeued
         /\ \A v \in Workers \ {w} : tp_workers[v].fun # tp_workers[w].fun

\* A worker runs the first function while the second and the third wait
\* in the queue and the other worker has not taken one yet.
C30_Witness ==
  /\ m_queue = <<2, 3>>
  /\ tp_tasks[1] = "running"
  /\ \E w \in Workers : tp_workers[w].pc = "idle"

\* The workers that hold a function they took from the queue.
Busy == {w \in Workers : tp_workers[w].pc \in {"run", "catch", "finish"}}

QueuedOrExecuting == {t \in Tasks : tp_tasks[t] \in {"queued", "running"}}

\* C32: m_pending_funcs is never negative and never less than the number
\* of functions that are queued or executing, so it is zero only when
\* there is none; it counts exactly the functions that enqueue has counted
\* and that no worker has finished with.
C32_PendingCoversQueuedAndRunning ==
  /\ m_pending_funcs >= 0
  /\ m_pending_funcs >= Cardinality(QueuedOrExecuting)
  /\ (m_pending_funcs = 0 => QueuedOrExecuting = {})
  /\ m_pending_funcs =
       Cardinality({t \in Tasks : tp_tasks[t] \in {"counted", "queued"}})
         + Cardinality(Busy)

\* The counter is back at zero after two functions ran, and a third
\* enqueue has not started.
C32_Witness ==
  /\ m_pending_funcs = 0
  /\ tp_tasks[1] \in {"done", "failed"}
  /\ tp_tasks[2] \in {"done", "failed"}
  /\ tp_tasks[3] = "none"
  /\ Busy = {}

\* The threads of SpecPoolLocks.
LockThreads == {"client"} \cup {WorkerName[w] : w \in Workers}
Mutexes == {"queue", "pending", "exception"}

\* The thread that holds a mutex, or "free".
Holder(mutex) ==
  CASE mutex = "queue" -> m_queue_mutex
    [] mutex = "pending" -> m_pending_funcs_mutex
    [] mutex = "exception" -> m_exception_mutex

Held(thread) == {mutex \in Mutexes : Holder(mutex) = thread}

\* The mutex that a thread is about to take, or "none".
Wants(thread) ==
  IF thread = "client"
  THEN CASE tp_client.pc \in {"enqueue_enter", "wait_enter", "woken"} ->
              "pending"
         [] tp_client.pc \in {"enqueue", "dtor_enter"} -> "queue"
         [] OTHER -> "none"
  ELSE LET w == CHOOSE v \in Workers : WorkerName[v] = thread
       IN CASE tp_workers[w].pc = "idle" -> "queue"
            [] tp_workers[w].pc = "catch" -> "exception"
            [] tp_workers[w].pc = "finish" -> "pending"
            [] OTHER -> "none"

\* The thread that a thread has to wait for, or "none".
WaitsFor(thread) ==
  IF Wants(thread) = "none" \/ Holder(Wants(thread)) = "free" THEN "none"
  ELSE Holder(Wants(thread))

RECURSIVE WaitChain(_, _)
\* The threads met by following WaitsFor from a thread, at most n times.
WaitChain(thread, n) ==
  IF n = 0 \/ WaitsFor(thread) = "none" THEN {}
  ELSE {WaitsFor(thread)} \cup WaitChain(WaitsFor(thread), n - 1)

\* C33: no thread waits, directly or through other threads, for a mutex
\* that it holds itself, so some thread at the end of every chain of
\* waiting threads can go on.  The owner takes m_queue_mutex in enqueue
\* only with m_pending_funcs_mutex held; a worker holds at most one mutex and
\* holds none when it takes one; whoever holds m_queue_mutex or
\* m_exception_mutex waits for no mutex.
C33_NoDeadlockOnMutexes ==
  /\ \A thread \in LockThreads :
       thread \notin WaitChain(thread, Cardinality(LockThreads))
  /\ tp_client.pc = "enqueue_push" => Held("client") = {"pending", "queue"}
  /\ tp_client.pc = "enqueue" => Held("client") = {"pending"}
  /\ \A w \in Workers :
       /\ Cardinality(Held(WorkerName[w])) <= 1
       /\ Wants(WorkerName[w]) # "none" => Held(WorkerName[w]) = {}
       /\ tp_workers[w].pc \in {"run", "waiting", "exited"} =>
            Held(WorkerName[w]) = {}
  /\ \A thread \in LockThreads :
       (Held(thread) \cap {"queue", "exception"} # {}) =>
          (Wants(thread) = "none" \/ tp_client.pc = "enqueue_push")
  /\ tp_client.pc = "waiting" => Held("client") = {}

\* The owner holds m_pending_funcs_mutex in enqueue and waits for
\* m_queue_mutex, which a worker holds; another worker waits for
\* m_pending_funcs_mutex.
C33_Witness ==
  /\ tp_client.pc = "enqueue"
  /\ WaitsFor("client") \in {WorkerName[w] : w \in Workers}
  /\ \E w \in Workers : WaitsFor(WorkerName[w]) = "client"

\* C29: on a pool whose functions all terminate, a thread blocked in
\* wait() leaves it in the end, the owner as well as every other thread.
C29_AsStated ==
  /\ (tp_client.pc = "waiting") ~> (tp_client.pc = "after_wait")
  /\ \A i \in OtherWaiters :
       (tp_waiters[i] = "waiting") ~> (tp_waiters[i] = "returned")

----------------------------------------------------------------------------
(* The deferred-close pool (io_worker.cpp).  One thread calls start, stop  *)
(* and enqueue_fclose, one call after the other.                           *)

\* Handles passed to enqueue_fclose.
MaxHandles == 2
\* Worker threads alive at a time.
MaxIoThreads == 2
\* Calls of start().
MaxStarts == 2

Handles == 1..MaxHandles
nullptr == 0

\* The state of the globals before main() runs.
IoGlobals(producer) ==
  /\ io_producer = producer
  /\ s_thread_pool = <<>>
  /\ s_terminate = FALSE
  /\ s_fclose_queue = <<>>
  /\ io_main = [pc |-> "idle", starts |-> 0, last |-> "none"]
  /\ io_handles = [h \in Handles |->
                    [how |-> "none", pool |-> 0, after |-> "none", closes |-> 0]]

\* Only one thread uses the pool.
IoInit == IoGlobals([pc |-> "off"])

\* is_worker_active()
IsWorkerActive == s_thread_pool # <<>>

\* std::fclose(f)
Fclose(handles, f) == [handles EXCEPT ![f].closes = @ + 1]

\* The threads blocked in s_pool_cond.wait.
IoBlocked == {i \in DOMAIN s_thread_pool : s_thread_pool[i].pc = "blocked"}

\* start(num_threads)
IoStart ==
  /\ io_main.pc \in {"idle", "stopped"}
  /\ io_main.starts < MaxStarts
  /\ \E num_threads \in 0..MaxIoThreads :
       /\ Len(s_thread_pool) + num_threads <= MaxIoThreads
       /\ s_thread_pool' = s_thread_pool
            \o [i \in 1..num_threads |-> [pc |-> "ready", f |-> nullptr]]
       /\ io_main' = [pc |-> "idle", starts |-> io_main.starts + 1,
                      last |-> IF num_threads = 0 THEN "start(0)"
                               ELSE "start"]
  /\ UNCHANGED <<s_terminate, s_fclose_queue, io_handles, io_producer>>

\* (an enqueue_fclose that always uses the queue)
IoEnqueueFcloseAlwaysQueues ==
  /\ io_main.pc \in {"idle", "stopped"}
  /\ \E f \in Handles :
       /\ io_handles[f].how = "none"
       /\ s_fclose_queue' = Append(s_fclose_queue, f)
       /\ io_handles' = [io_handles EXCEPT
                           ![f].how = "queued",
                           ![f].pool = Len(s_thread_pool),
                           ![f].after = io_main.last]
       /\ \/ IoBlocked = {} /\ UNCHANGED s_thread_pool
          \/ \E i \in IoBlocked :
               s_thread_pool' = [s_thread_pool EXCEPT ![i].pc = "ready"]
  /\ io_main' = [io_main EXCEPT !.pc = "idle"]
  /\ UNCHANGED <<s_terminate, io_producer>>

\* enqueue_fclose(f): with a worker, f is pushed and one worker notified;
\* without, f is closed by the caller.
IoEnqueueFclose ==
  /\ io_main.pc \in {"idle", "stopped"}
  /\ \E f \in Handles :
       /\ io_handles[f].how = "none"
       /\ IF IsWorkerActive
          THEN /\ s_fclose_queue' = Append(s_fclose_queue, f)
               /\ io_handles' = [io_handles EXCEPT
                                   ![f].how = "queued",
                                   ![f].pool = Len(s_thread_pool),
                                   ![f].after = io_main.last]
               /\ \/ IoBlocked = {} /\ UNCHANGED s_thread_pool
                  \/ \E i \in IoBlocked :
                       s_thread_pool' =
                         [s_thread_pool EXCEPT ![i].pc = "ready"]
          ELSE /\ io_handles' = [Fclose(io_handles, f) EXCEPT
                                   ![f].how = "sync",
                                   ![f].pool = Len(s_thread_pool),
                                   ![f].after = io_main.last]
               /\ UNCHANGED <<s_fclose_queue, s_thread_pool>>
  /\ io_main' = [io_main EXCEPT !.pc = "idle"]
  /\ UNCHANGED <<s_terminate, io_producer>>

\* stop(), up to the joins: s_terminate = true; notify_all().  Without a
\* worker stop() returns at once.
IoStopSignal ==
  /\ io_main.pc \in {"idle", "stopped"}
  /\ IF IsWorkerActive
     THEN /\ s_terminate' = TRUE
          /\ s_thread_pool' =
               [i \in DOMAIN s_thread_pool |->
                  IF s_thread_pool[i].pc = "blocked"
                  THEN [s_thread_pool[i] EXCEPT !.pc = "ready"]
                  ELSE s_thread_pool[i]]
          /\ io_main' = [io_main EXCEPT !.pc = "joining"]
     ELSE /\ io_main' = [io_main EXCEPT !.pc = "stopped", !.last = "stop"]
          /\ UNCHANGED <<s_terminate, s_thread_pool>>
  /\ UNCHANGED <<s_fclose_queue, io_handles, io_producer>>

\* stop(), the rest: every thread is joined and s_thread_pool cleared.
IoStopJoin ==
  /\ io_main.pc = "joining"
  /\ \A i \in DOMAIN s_thread_pool : s_thread_pool[i].pc = "exited"
  /\ s_thread_pool' = <<>>
  /\ io_main' = [io_main EXCEPT !.pc = "stopped", !.last = "stop"]
  /\ UNCHANGED <<s_terminate, s_fclose_queue, io_handles, io_producer>>

\* worker(), the block that holds s_pool_mutex: block while the queue is
\* empty and s_terminate is false; else pop the front, if any, and decide
\* whether to go on.
IoWorkerPop(i) ==
  /\ i \in DOMAIN s_thread_pool
  /\ s_thread_pool[i].pc = "ready"
  /\ IF s_fclose_queue = <<>> /\ ~s_terminate
     THEN /\ s_thread_pool' = [s_thread_pool EXCEPT ![i].pc = "blocked"]
          /\ UNCHANGED s_fclose_queue
     ELSE LET f == IF s_fclose_queue # <<>> THEN Head(s_fclose_queue)
                   ELSE nullptr
              rest == IF s_fclose_queue # <<>> THEN Tail(s_fclose_queue)
                      ELSE <<>>
              running == ~(s_terminate /\ rest = <<>>)
          IN /\ s_fclose_queue' = rest
             /\ s_thread_pool' =
                  [s_thread_pool EXCEPT
                     ![i] = [pc |-> IF running THEN "close" ELSE "last_close",
                             f |-> f]]
  /\ UNCHANGED <<s_terminate, io_main, io_handles, io_producer>>

\* worker(), after the block: fclose(f) if a handle was popped, then the
\* loop goes on or ends.
IoWorkerClose(i) ==
  /\ i \in DOMAIN s_thread_pool
  /\ s_thread_pool[i].pc \in {"close", "last_close"}
  /\ io_handles' = IF s_thread_pool[i].f # nullptr
                   THEN Fclose(io_handles, s_thread_pool[i].f)
                   ELSE io_handles
  /\ s_thread_pool' =
       [s_thread_pool EXCEPT
          ![i] = [pc |-> IF s_thread_pool[i].pc = "close" THEN "ready"
                         ELSE "exited",
                  f |-> nullptr]]
  /\ UNCHANGED <<s_terminate, s_fclose_queue, io_main, io_producer>>

InitIO == DriverIdle /\ FpIdle /\ MsvcIdle /\ PoolIdle /\ IoInit /\ RedisIdle /\ ConnIdle
  /\ StoreIdle /\ LockIdle

NextIO ==
  \/ (IoStart /\ UNCHANGED nonIoVars)
  \/ (IoEnqueueFclose /\ UNCHANGED nonIoVars)
  \/ (IoStopSignal /\ UNCHANGED nonIoVars)
  \/ (IoStopJoin /\ UNCHANGED nonIoVars)
  \/ (\E i \in 1..MaxIoThreads : IoWorkerPop(i) /\ UNCHANGED nonIoVars)
  \/ (\E i \in 1..MaxIoThreads : IoWorkerClose(i) /\ UNCHANGED nonIoVars)

SpecIO == InitIO /\ [][NextIO]_vars

\* The pool with a second thread that calls enqueue_fclose while the first
\* calls start, stop and enqueue_fclose (specification SpecIOShared).
\* is_worker_active() reads s_thread_pool without s_pool_mutex: the second
\* thread sees the vector as it was before or after a call of the first.

\* enqueue_fclose(f) on the second thread, the test: without a worker f is
\* closed by the caller, with a worker the caller goes on to the push.
IoProducerCheck ==
  /\ io_producer.pc = "idle"
  /\ \E f \in Handles :
       /\ io_handles[f].how = "none"
       /\ IF IsWorkerActive
          THEN /\ io_producer' = [pc |-> "push", f |-> f]
               /\ io_handles' = [io_handles EXCEPT
                                   ![f].how = "passed",
                                   ![f].pool = Len(s_thread_pool),
                                   ![f].after = io_main.last]
          ELSE /\ io_handles' = [Fclose(io_handles, f) EXCEPT
                                   ![f].how = "sync",
                                   ![f].pool = Len(s_thread_pool),
                                   ![f].after = io_main.last]
               /\ UNCHANGED io_producer
  /\ UNCHANGED <<s_thread_pool, s_terminate, s_fclose_queue, io_main>>

\* enqueue_fclose(f) on the second thread, the rest: with s_pool_mutex held
\* f is pushed and one worker notified.
IoProducerPush ==
  /\ io_producer.pc = "push"
  /\ s_fclose_queue' = Append(s_fclose_queue, io_producer.f)
  /\ io_handles' = [io_handles EXCEPT ![io_producer.f].how = "queued"]
  /\ \/ IoBlocked = {} /\ UNCHANGED s_thread_pool
     \/ \E i \in IoBlocked :
          s_thread_pool' = [s_thread_pool EXCEPT ![i].pc = "ready"]
  /\ io_producer' = [pc |-> "idle", f |-> nullptr]
  /\ UNCHANGED <<s_terminate, io_main>>

InitIOShared ==
  DriverIdle /\ FpIdle /\ MsvcIdle /\ PoolIdle /\ RedisIdle /\ ConnIdle
  /\ StoreIdle /\ LockIdle /\ IoGlobals([pc |-> "idle", f |-> nullptr])

NextIOShared ==
  \/ (IoStart /\ UNCHANGED nonIoVars)
  \/ (IoEnqueueFclose /\ UNCHANGED nonIoVars)
  \/ (IoStopSignal /\ UNCHANGED nonIoVars)
  \/ (IoStopJoin /\ UNCHANGED nonIoVars)
  \/ (\E i \in 1..MaxIoThreads : IoWorkerPop(i) /\ UNCHANGED nonIoVars)
  \/ (\E i \in 1..MaxIoThreads : IoWorkerClose(i) /\ UNCHANGED nonIoVars)
  \/ (IoProducerCheck /\ UNCHANGED nonIoVars)
  \/ (IoProducerPush /\ UNCHANGED nonIoVars)

SpecIOShared == InitIOShared /\ [][NextIOShared]_vars

----------------------------------------------------------------------------
(* Properties of the deferred-close pool (specification SpecIO).           *)

\* C17 as stated: when stop() has returned, every handle passed to
\* enqueue_fclose before has been closed.
C17_AsStated ==
  io_main.pc = "stopped" =>
    \A f \in Handles : io_handles[f].how # "none" => io_handles[f].closes >= 1

\* C18: a handle passed to enqueue_fclose while s_thread_pool was empty was
\* closed by the caller, once, and never was in the queue.
C18_NoWorkerClosesAtOnce ==
  \A f \in Handles :
    (io_handles[f].how # "none" /\ io_handles[f].pool = 0) =>
      /\ io_handles[f].how = "sync"
      /\ io_handles[f].closes = 1
      /\ \A k \in DOMAIN s_fclose_queue : s_fclose_queue[k] # f
      /\ \A i \in DOMAIN s_thread_pool : s_thread_pool[i].f # f

\* Two handles were closed by the caller: one after start(0), one after a
\* stop() that joined a worker.
C18_Witness ==
  /\ s_terminate
  /\ \A last \in {"start(0)", "stop"} :
       \E f \in Handles :
         /\ io_handles[f].how = "sync"
         /\ io_handles[f].pool = 0
         /\ io_handles[f].after = last

\* C34 as stated, for a pool that is started once: no handle is closed
\* twice, and when stop() has returned and no call of enqueue_fclose is in
\* progress, every handle passed to enqueue_fclose has been closed.
C34_AsStated ==
  io_main.starts <= 1 =>
    \A f \in Handles :
      /\ io_handles[f].closes <= 1
      /\ (io_main.pc = "stopped" /\ io_producer.pc = "idle"
            /\ io_handles[f].how # "none") =>
           io_handles[f].closes = 1

\* C35 as stated, in the form of a state that must not occur: the pool was
\* stopped and started again with at least one thread, a handle passed to
\* enqueue_fclose since is in the queue, and every worker of the pool has
\* ended, so that no worker is left to close it.
C35_AsStated ==
  \A f \in Handles :
    (/\ s_terminate
     /\ io_main.pc = "idle"
     /\ io_main.last = "start"
     /\ io_handles[f].how = "queued"
     /\ io_handles[f].after = "start"
     /\ io_handles[f].closes = 0) =>
      \E i \in DOMAIN s_thread_pool : s_thread_pool[i].pc # "exited"

----------------------------------------------------------------------------
(* The Redis cache provider (redis_cache_provider.cpp).  Every process has *)
(* its own provider and connection; the server executes one command at a   *)
(* time.  The server changes its keys only when it executes a SET.         *)

\* Processes that call add.
NumWriters == 2
\* Calls of add, over all writers.
MaxAdds == 2

Writers == 1..NumWriters

CACHE_ENTRY_FILE_NAME == ".entry"
DB_PREFIX == "buildcache"

\* remote_key_name(hash_str, file): DB_PREFIX + "_" + hash_str + "_" + file
RemoteKeyName(hash_str, file) == <<DB_PREFIX, hash_str, file>>

RdHashes == {"h1"}
RdFileIds == {"cov", "object"}
RdKeys ==
  {RemoteKeyName(h, f) :
     h \in RdHashes, f \in RdFileIds \cup {CACHE_ENTRY_FILE_NAME}}

Absent == [kind |-> "absent"]
\* A value that is not a serialised entry.
Corrupt == [kind |-> "corrupt"]

\* cache_t::entry_t(): the empty entry.
EmptyEntry == [files |-> <<>>, compression_mode |-> "NONE"]
\* The entries handed to add: the file ids in the order of entry.files.
RdEntries ==
  {[files |-> <<"object">>, compression_mode |-> "NONE"],
   [files |-> <<"cov", "object">>, compression_mode |-> "NONE"],
   [files |-> <<"cov", "object">>, compression_mode |-> "ALL"]}

\* cache_t::serialize_entry and cache_t::deserialize_entry
SerializeEntry(entry) == [kind |-> "entry", entry |-> entry]
DeserializeEntry(data) ==
  IF data.kind = "entry" THEN Value(data.entry)
  ELSE Thrown("deserialize_entry failed")

\* file::read(source_path) and comp::compress(data)
FileRead(file_id) == [kind |-> "file", id |-> file_id]
Compress(data) == [kind |-> "compressed", data |-> data]

\* What becomes of a command: the server executes it and answers as the
\* command asks ("served"), or answers with an error or with a reply of
\* another type, or redisCommand returns a null pointer, the command
\* executed on the server or not.
GetReplies == {"served", "ERROR", "OTHER", "null"}
SetReplies == {"served", "ERROR", "OTHER", "null", "null-executed"}

\* disconnect()
Disconnect(ctx) == "null"

\* The replies a provider can get: without a connection no command is sent.
RepliesOn(ctx, replies) == IF ctx = "null" THEN {"none"} ELSE replies

\* get_data(key): the connection it leaves and its value or exception.
GetData(ctx, store, key, reply) ==
  IF ctx = "null"
  THEN [ctx |-> ctx,
        outcome |-> Thrown("Can't GET from a disconnected context")]
  ELSE IF reply = "null"
  THEN [ctx |-> Disconnect(ctx), outcome |-> Thrown("Remote cache GET error")]
  ELSE IF reply = "ERROR"
  THEN [ctx |-> ctx, outcome |-> Thrown("Remote cache reply error")]
  ELSE IF reply = "OTHER"
  THEN [ctx |-> ctx, outcome |-> Thrown("Unexpected remote cache reply type")]
  ELSE IF store[key] = Absent
  THEN [ctx |-> ctx, outcome |-> Thrown("Remote cache miss")]
  ELSE [ctx |-> ctx, outcome |-> Value(store[key])]

\* set_data(key, data): the connection and the server it leaves, and
\* whether it returned or threw.
SetData(ctx, store, key, data, reply) ==
  IF ctx = "null"
  THEN [ctx |-> ctx, store |-> store,
        outcome |-> Thrown("Can't SET to a disconnected context")]
  ELSE IF reply \in {"null", "null-executed"}
  THEN [ctx |-> Disconnect(ctx),
        store |-> IF reply = "null" THEN store
                  ELSE [store EXCEPT ![key] = data],
        outcome |-> Thrown("Remote cache GET error")]
  ELSE IF reply = "ERROR"
  THEN [ctx |-> ctx, store |-> store,
        outcome |-> Thrown("Remote cache reply error")]
  ELSE IF reply = "OTHER"
  THEN [ctx |-> ctx, store |-> store,
        outcome |-> Thrown("Unexpected remote cache reply type")]
  ELSE [ctx |-> ctx, store |-> [store EXCEPT ![key] = data],
        outcome |-> Value("void")]

\* (an add that writes the manifest before the files)
AddOrderManifestFirst(entry) == <<CACHE_ENTRY_FILE_NAME>> \o entry.files

\* add(hash, entry): the keys it writes, in order.
AddOrder(entry) == entry.files \o <<CACHE_ENTRY_FILE_NAME>>

\* (an add that compresses whatever it uploads when the mode is ALL)
AddDataCompressesManifest(entry, file) ==
  LET data == IF file = CACHE_ENTRY_FILE_NAME THEN SerializeEntry(entry)
              ELSE FileRead(file)
  IN IF entry.compression_mode = "ALL" THEN Compress(data) ELSE data

\* add(hash, entry): the value it writes under a key.
AddData(entry, file) ==
  IF file = CACHE_ENTRY_FILE_NAME THEN SerializeEntry(entry)
  ELSE IF entry.compression_mode = "ALL" THEN Compress(FileRead(file))
  ELSE FileRead(file)

\* The server holds nothing, or under the manifest key a value that is no
\* entry.
RedisInit ==
  /\ \E manifest \in {Absent, Corrupt} :
       redis_store =
         [k \in RdKeys |->
            IF k = RemoteKeyName("h1", CACHE_ENTRY_FILE_NAME) THEN manifest
            ELSE Absent]
  /\ rd_writers =
       [w \in Writers |->
          [m_ctx |-> "null", pc |-> "idle", entry |-> EmptyEntry,
           todo |-> <<>>]]
  /\ rd_reader =
       [m_ctx |-> "null", pc |-> "idle", hash |-> "h1", entry |-> EmptyEntry,
        todo |-> <<>>, lookup |-> [how |-> "none", cause |-> "none"],
        missing |-> {}, fetched |-> 0]
  /\ rd_adds = 0

\* connect(host_description) with a valid description, on a provider that
\* is not connected: redisConnect gives a usable context or not.
RdWriterConnect(w) ==
  /\ rd_writers[w].pc = "idle"
  /\ rd_writers[w].m_ctx = "null"
  /\ \E ctx \in {"ctx", "null"} :
       rd_writers' = [rd_writers EXCEPT ![w].m_ctx = ctx]
  /\ UNCHANGED <<redis_store, rd_reader, rd_adds>>

RdReaderConnect ==
  /\ rd_reader.pc = "idle"
  /\ rd_reader.m_ctx = "null"
  /\ \E ctx \in {"ctx", "null"} : rd_reader' = [rd_reader EXCEPT !.m_ctx = ctx]
  /\ UNCHANGED <<redis_store, rd_writers, rd_adds>>

\* add(hash, entry) is called for the hash h1.
RdAddBegin(w) ==
  /\ rd_writers[w].pc = "idle"
  /\ rd_adds < MaxAdds
  /\ \E entry \in RdEntries :
       rd_writers' = [rd_writers EXCEPT
                        ![w].pc = "add", ![w].entry = entry,
                        ![w].todo = AddOrder(entry)]
  /\ rd_adds' = rd_adds + 1
  /\ UNCHANGED <<redis_store, rd_reader>>

\* add(hash, entry), one set_data: the next file, or the manifest after the
\* last file.  An exception of set_data ends add.
RdAddSet(w) ==
  /\ rd_writers[w].pc = "add"
  /\ \E reply \in RepliesOn(rd_writers[w].m_ctx, SetReplies) :
       LET me == rd_writers[w]
           file == Head(me.todo)
           set == SetData(me.m_ctx, redis_store, RemoteKeyName("h1", file),
                          AddData(me.entry, file), reply)
           failed == set.outcome.how = "throw"
           finished == failed \/ Tail(me.todo) = <<>>
       IN /\ redis_store' = set.store
          /\ rd_writers' =
               [rd_writers EXCEPT
                  ![w].m_ctx = set.ctx,
                  ![w].todo = IF finished THEN <<>> ELSE Tail(me.todo),
                  ![w].entry = IF finished THEN EmptyEntry ELSE me.entry,
                  ![w].pc = IF finished THEN "idle" ELSE "add"]
  /\ UNCHANGED <<rd_reader, rd_adds>>

\* (a lookup without the try block)
RdLookupWithoutCatch ==
  /\ rd_reader.pc = "idle"
  /\ \E hash_ \in RdHashes, reply \in RepliesOn(rd_reader.m_ctx, GetReplies) :
       LET get == GetData(rd_reader.m_ctx, redis_store,
                          RemoteKeyName(hash_, CACHE_ENTRY_FILE_NAME), reply)
           entry == IF get.outcome.how = "throw" THEN get.outcome
                    ELSE DeserializeEntry(get.outcome.value)
           hit == entry.how = "value"
       IN rd_reader' =
            [m_ctx |-> get.ctx, hash |-> hash_,
             pc |-> IF hit /\ entry.value # EmptyEntry THEN "files" ELSE "idle",
             entry |-> IF hit THEN entry.value ELSE EmptyEntry,
             todo |-> IF hit THEN entry.value.files ELSE <<>>,
             lookup |-> [how |-> IF hit THEN "return" ELSE "throw",
                         cause |-> IF hit THEN "hit" ELSE entry.what],
             missing |-> {}, fetched |-> 0]
  /\ UNCHANGED <<redis_store, rd_writers, rd_adds>>

\* lookup(hash): the manifest is fetched and deserialised; a std::exception
\* of either is caught and the empty entry returned.
RdLookup ==
  /\ rd_reader.pc = "idle"
  /\ \E hash_ \in RdHashes, reply \in RepliesOn(rd_reader.m_ctx, GetReplies) :
       LET get == GetData(rd_reader.m_ctx, redis_store,
                          RemoteKeyName(hash_, CACHE_ENTRY_FILE_NAME), reply)
           entry == IF get.outcome.how = "throw" THEN get.outcome
                    ELSE DeserializeEntry(get.outcome.value)
           hit == entry.how = "value"
       IN rd_reader' =
            [m_ctx |-> get.ctx, hash |-> hash_,
             pc |-> IF hit /\ entry.value # EmptyEntry THEN "files" ELSE "idle",
             entry |-> IF hit THEN entry.value ELSE EmptyEntry,
             todo |-> IF hit THEN entry.value.files ELSE <<>>,
             lookup |-> [how |-> "return",
                         cause |-> IF hit THEN "hit" ELSE entry.what],
             missing |-> {}, fetched |-> 0]
  /\ UNCHANGED <<redis_store, rd_writers, rd_adds>>

\* get_file(hash, source_id, ...) for the next file of the entry that
\* lookup returned; an exception ends the fetching of the entry.
RdGetFile ==
  /\ rd_reader.pc = "files"
  /\ \E reply \in RepliesOn(rd_reader.m_ctx, GetReplies) :
       LET file == Head(rd_reader.todo)
           get == GetData(rd_reader.m_ctx, redis_store,
                          RemoteKeyName(rd_reader.hash, file), reply)
           failed == get.outcome.how = "throw"
           finished == failed \/ Tail(rd_reader.todo) = <<>>
       IN rd_reader' =
            [rd_reader EXCEPT
               !.m_ctx = get.ctx,
               !.todo = IF finished THEN <<>> ELSE Tail(rd_reader.todo),
               !.pc = IF finished THEN "idle" ELSE "files",
               !.fetched = IF failed THEN @ ELSE @ + 1,
               !.missing = IF get.outcome = Thrown("Remote cache miss")
                           THEN @ \cup {file} ELSE @]
  /\ UNCHANGED <<redis_store, rd_writers, rd_adds>>

InitRedis ==
  DriverIdle /\ FpIdle /\ MsvcIdle /\ PoolIdle /\ IoIdle /\ RedisInit /\ ConnIdle
  /\ StoreIdle /\ LockIdle

NextRedis ==
  \/ (\E w \in Writers : RdWriterConnect(w) /\ UNCHANGED nonRedisVars)
  \/ (RdReaderConnect /\ UNCHANGED nonRedisVars)
  \/ (\E w \in Writers : RdAddBegin(w) /\ UNCHANGED nonRedisVars)
  \/ (\E w \in Writers : RdAddSet(w) /\ UNCHANGED nonRedisVars)
  \/ (RdLookup /\ UNCHANGED nonRedisVars)
  \/ (RdGetFile /\ UNCHANGED nonRedisVars)

SpecRedis == InitRedis /\ [][NextRedis]_vars

----------------------------------------------------------------------------
(* Properties of the Redis cache provider (specification SpecRedis).       *)

ManifestOf(h) == redis_store[RemoteKeyName(h, CACHE_ENTRY_FILE_NAME)]

\* C19: whenever the server holds the manifest of a hash, it holds every
\* file the manifest lists, whatever the writers are doing; a reader that
\* got the manifest from lookup is never told that one of its files is
\* absent.
C19_ManifestImpliesArtifacts ==
  /\ \A h \in RdHashes :
       ManifestOf(h).kind = "entry" =>
         \A i \in DOMAIN ManifestOf(h).entry.files :
           redis_store[RemoteKeyName(h, ManifestOf(h).entry.files[i])]
             # Absent
  /\ rd_reader.missing = {}

\* The reader has fetched both files of a manifest while a writer is
\* between two SETs of an add for the same hash.
C19_Witness ==
  /\ rd_reader.lookup.cause = "hit"
  /\ Len(rd_reader.entry.files) = 2
  /\ rd_reader.fetched = 2
  /\ \E w \in Writers :
       rd_writers[w].pc = "add" /\ Len(rd_writers[w].todo) = 1

\* C20: lookup always returns; when the GET of the manifest or its
\* deserialisation failed, it returns the empty entry.
C20_LookupReturnsEmptyOnFailure ==
  /\ rd_reader.lookup.how \in {"none", "return"}
  /\ (rd_reader.lookup.how = "return" /\ rd_reader.lookup.cause # "hit") =>
       (rd_reader.entry = EmptyEntry /\ rd_reader.pc = "idle")

\* lookup returned the empty entry on a provider that had lost its
\* connection.
C20_Witness ==
  /\ rd_reader.lookup =
       [how |-> "return", cause |-> "Can't GET from a disconnected context"]
  /\ rd_reader.entry = EmptyEntry

\* What a provider on a connection is about to send, and the replies that
\* are failures of the command other than a miss.
RdNextGetKey ==
  IF rd_reader.pc = "files"
  THEN RemoteKeyName(rd_reader.hash, Head(rd_reader.todo))
  ELSE RemoteKeyName(rd_reader.hash, CACHE_ENTRY_FILE_NAME)
TransientGetFailures ==
  {Thrown("Remote cache GET error"), Thrown("Remote cache reply error"),
   Thrown("Unexpected remote cache reply type")}

\* C21: whatever the server answers to the GET or SET a connected provider
\* sends next, a failure of the command, an error reply or an unexpected
\* reply leaves the provider without connection, and a nil reply to a GET
\* leaves the connection as it was.
C21_AsStated ==
  /\ rd_reader.m_ctx # "null" =>
       \A reply \in GetReplies :
         LET get == GetData(rd_reader.m_ctx, redis_store, RdNextGetKey, reply)
         IN /\ get.outcome \in TransientGetFailures => get.ctx = "null"
            /\ get.outcome = Thrown("Remote cache miss") =>
                 get.ctx = rd_reader.m_ctx
  /\ \A w \in Writers :
       (rd_writers[w].pc = "add" /\ rd_writers[w].m_ctx # "null") =>
         \A reply \in SetReplies :
           LET file == Head(rd_writers[w].todo)
               set == SetData(rd_writers[w].m_ctx, redis_store,
                              RemoteKeyName("h1", file),
                              AddData(rd_writers[w].entry, file), reply)
           IN set.outcome.how = "throw" => set.ctx = "null"

\* C24: a SET of add that changes the server stores, under the key of a
\* file, the compressed file when the entry's compression mode is ALL and
\* the file as read otherwise, and under the .entry key the serialised
\* entry, not compressed, whatever the mode.
C24_CompressesPayloadOnly ==
  [][\A w \in Writers :
       (/\ rd_writers[w].pc = "add"
        /\ rd_writers'[w] # rd_writers[w]
        /\ redis_store' # redis_store) =>
         LET entry == rd_writers[w].entry
             file == Head(rd_writers[w].todo)
             stored == redis_store'[RemoteKeyName("h1", file)]
         IN IF file = CACHE_ENTRY_FILE_NAME
            THEN stored = SerializeEntry(entry)
            ELSE IF entry.compression_mode = "ALL"
            THEN stored = Compress(FileRead(file))
            ELSE stored = FileRead(file)]_vars

\* The server holds the manifest of an entry of mode ALL, not compressed,
\* and its two files, compressed.
C24_Witness ==
  /\ ManifestOf("h1") =
       SerializeEntry([files |-> <<"cov", "object">>,
                       compression_mode |-> "ALL"])
  /\ \A f \in RdFileIds :
       redis_store[RemoteKeyName("h1", f)] = Compress(FileRead(f))

----------------------------------------------------------------------------
(* connect and disconnect of one provider (redis_cache_provider.cpp), the  *)
(* endpoint being any short string (specification SpecConnect).            *)

\* The longest endpoint description.
MaxEndpointLen == 4

INT_MAX == 2147483647

EndpointChars == {"h", ":", "6", "x", " ", "-"}
Endpoints == UNION {[1..n -> EndpointChars] : n \in 0..MaxEndpointLen}

DigitValue ==
  [ch \in {"0", "1", "2", "3", "4", "5", "6", "7", "8", "9"} |->
     CASE ch = "0" -> 0 [] ch = "1" -> 1 [] ch = "2" -> 2 [] ch = "3" -> 3
       [] ch = "4" -> 4 [] ch = "5" -> 5 [] ch = "6" -> 6 [] ch = "7" -> 7
       [] ch = "8" -> 8 [] ch = "9" -> 9]

RECURSIVE SkipSpaces(_)
SkipSpaces(str) ==
  IF str # <<>> /\ Head(str) = " " THEN SkipSpaces(Tail(str)) ELSE str

RECURSIVE LeadingDigits(_)
LeadingDigits(str) ==
  IF str # <<>> /\ Head(str) \in DOMAIN DigitValue
  THEN <<Head(str)>> \o LeadingDigits(Tail(str))
  ELSE <<>>

RECURSIVE DigitsValue(_)
DigitsValue(digits) ==
  IF digits = <<>> THEN 0
  ELSE 10 * DigitsValue(SubSeq(digits, 1, Len(digits) - 1))
         + DigitValue[digits[Len(digits)]]

\* std::stoi(str): white space is skipped, then an optional sign and the
\* longest run of digits are converted; what follows the digits is ignored.
Stoi(str) ==
  LET unspaced == SkipSpaces(str)
      signed == unspaced # <<>> /\ Head(unspaced) \in {"+", "-"}
      negative == signed /\ Head(unspaced) = "-"
      digits == LeadingDigits(IF signed THEN Tail(unspaced) ELSE unspaced)
      magnitude == DigitsValue(digits)
  IN IF digits = <<>> THEN Thrown("invalid_argument")
     ELSE IF (IF negative THEN magnitude - 1 ELSE magnitude) > INT_MAX
     THEN Thrown("out_of_range")
     ELSE Value(IF negative THEN 0 - magnitude ELSE magnitude)

\* get_remote_server(host_description, host, port)
GetRemoteServer(host_description) ==
  LET parts == Split(host_description, ":")
  IN IF Len(parts) # 2 THEN [ok |-> FALSE]
     ELSE IF Len(parts[1]) < 1 THEN [ok |-> FALSE]
     ELSE IF Stoi(parts[2]).how = "throw" THEN [ok |-> FALSE]
     ELSE [ok |-> TRUE, host |-> parts[1], port |-> Stoi(parts[2]).value]

\* redisConnect(host, port): a context, a context with err set, or nullptr.
RedisConnectResults == {"ctx", "ctx-err", "nullptr"}

\* connect(host_description): the context it leaves, what it returns and
\* whether it called redisConnect.
Connect(ctx, host_description, redis_connect) ==
  IF ctx # "null" THEN [ctx |-> ctx, ret |-> TRUE, attempted |-> FALSE]
  ELSE IF ~GetRemoteServer(host_description).ok
  THEN [ctx |-> ctx, ret |-> FALSE, attempted |-> FALSE]
  ELSE IF redis_connect = "nullptr"
  THEN [ctx |-> "null", ret |-> FALSE, attempted |-> TRUE]
  ELSE IF redis_connect = "ctx-err"
  THEN [ctx |-> Disconnect("ctx-err"), ret |-> FALSE, attempted |-> TRUE]
  ELSE [ctx |-> redis_connect, ret |-> TRUE, attempted |-> TRUE]

\* A process is configured with one endpoint, and has a provider that is
\* not connected.
ConnInit ==
  /\ rc_ctx = "null"
  /\ \E host_description \in Endpoints :
       rc_call = [op |-> "none", host_description |-> host_description]

RcConnect ==
  \E redis_connect \in RedisConnectResults :
    LET connect == Connect(rc_ctx, rc_call.host_description, redis_connect)
    IN /\ rc_ctx' = connect.ctx
       /\ rc_call' = [op |-> "connect", was_connected |-> rc_ctx # "null",
                      host_description |-> rc_call.host_description,
                      ret |-> connect.ret, attempted |-> connect.attempted]

RcDisconnect ==
  /\ rc_call.op = "connect"
  /\ rc_ctx' = Disconnect(rc_ctx)
  /\ rc_call' = [op |-> "disconnect",
                 host_description |-> rc_call.host_description]

InitConnect ==
  DriverIdle /\ FpIdle /\ MsvcIdle /\ PoolIdle /\ IoIdle /\ RedisIdle
  /\ ConnInit /\ StoreIdle /\ LockIdle

NextConnect ==
  \/ (RcConnect /\ UNCHANGED nonConnVars)
  \/ (RcDisconnect /\ UNCHANGED nonConnVars)

SpecConnect == InitConnect /\ [][NextConnect]_vars

\* An endpoint of the form host:port, the host not empty, the port a
\* number.
IsHostPort(host_description) ==
  /\ Cardinality({i \in DOMAIN host_description :
                    host_description[i] = ":"}) = 1
  /\ LET colon == CHOOSE i \in DOMAIN host_description :
                    host_description[i] = ":"
         port == SubStrFrom(host_description, colon)
     IN /\ colon > 1
        /\ port # <<>>
        /\ \A i \in DOMAIN port : port[i] \in DOMAIN DigitValue

\* C22: a connect with an endpoint that is not host:port returns false
\* without calling redisConnect and leaves the provider disconnected; after
\* a connect that returned false the provider is not connected, after one
\* that returned true it is.
C22_AsStated ==
  rc_call.op = "connect" =>
    /\ ~IsHostPort(rc_call.host_description) =>
         (~rc_call.ret /\ ~rc_call.attempted /\ rc_ctx = "null")
    /\ rc_call.ret <=> rc_ctx # "null"

----------------------------------------------------------------------------
(* The local store, as the specification describes it (sections 3, 4.3,    *)
(* 5 and 6): its code is not among the sources.  Several processes add     *)
(* entries to one cache root and may crash at any step; lookups and        *)
(* evictions see a directory whole, a rename being atomic (specification   *)
(* SpecStore).                                                             *)

\* Processes that add entries.
NumStoreProcs == 2
\* Calls of add, over all processes.
MaxStoreAdds == 2
\* Calls of add when one process makes them all.
MaxSeqAdds == 4
\* Processes that are killed during add.
MaxCrashes == 1
\* The size of an entry, in KiB.
EntryKiB == 400

StoreProcs == 1..NumStoreProcs
\* The keys, in the order in which they are first added.
StoreKeyOrder == <<"E1", "E2", "E3", "E4">>
StoreKeys == {StoreKeyOrder[i] : i \in DOMAIN StoreKeyOrder}
\* The File IDs of an entry, in the order add places them.
StoreFileIds == <<"object", "cov">>
\* The configured maximum size, in KiB.
Caps == {700, 1024}

\* root/<H[0:2]>/<H[2:]> and root/<H[0:2]>/<H[2:]>.tmp-<rand>, the random
\* part being the process.
FinalPath(key) == <<key, 0>>
TempPath(key, p) == <<key, p>>
StorePaths ==
  {FinalPath(k) : k \in StoreKeys}
    \cup {TempPath(k, p) : k \in StoreKeys, p \in StoreProcs}

\* A directory: the files in it, each with the process that wrote it, and
\* the process that wrote its .entry file, 0 when it has none.
NoDir == [kind |-> "absent"]
EmptyDir == [kind |-> "dir", files |-> {}, manifest |-> 0]

\* A directory holds an entry: the manifest and every file of it, all from
\* one call of add.
Complete(dir) ==
  /\ dir # NoDir
  /\ dir.manifest # 0
  /\ dir.files =
       {<<StoreFileIds[i], dir.manifest>> : i \in DOMAIN StoreFileIds}

\* (an add that builds the entry at its final path)
AddDirInPlace(key, p) == FinalPath(key)

\* add, steps 1 to 3: the directory add works in.
AddDir(key, p) == TempPath(key, p)

\* (a rename that replaces an existing directory)
RenameOverwrites(destination) == TRUE

\* add, step 4: the rename succeeds when the destination does not exist.
RenameWins(destination) == destination = NoDir

\* (a total that counts the newest record only)
TotalSizeOfLast(records) ==
  IF records = <<>> THEN 0 ELSE records[Len(records)][2]

RECURSIVE TotalSize(_)
TotalSize(records) ==
  IF records = <<>> THEN 0
  ELSE Head(records)[2] + TotalSize(Tail(records))

\* (an eviction that removes the most recently used entries first)
RECURSIVE EvictNewestFirst(_, _)
EvictNewestFirst(records, max_bytes) ==
  IF records = <<>> \/ TotalSize(records) <= max_bytes THEN records
  ELSE EvictNewestFirst(SubSeq(records, 1, Len(records) - 1), max_bytes)

\* evict_to(max_bytes): what stays of the records, which are in ascending
\* order of access time.
RECURSIVE EvictTo(_, _)
EvictTo(records, max_bytes) ==
  IF records = <<>> \/ TotalSize(records) <= max_bytes THEN records
  ELSE EvictTo(Tail(records), max_bytes)

\* The keys of some records.
KeySet(records) == {records[i][1] : i \in DOMAIN records}

\* The global manifest with the record of a key removed, and with the key
\* recorded as accessed now.
Unlisted(records, key) == SelectSeq(records, LAMBDA r : r[1] # key)
Touched(records, key, size) == Append(Unlisted(records, key), <<key, size>>)

\* The step of scenario S4 that the operations so far have reached: -1
\* when they are not a prefix of the scenario.
OffS4 == 0 - 1
S4Inserts == <<"E1", "E2", "E3", "none", "E4", "none">>
OthersIdle(p) == \A q \in StoreProcs \ {p} : ls_procs[q].pc = "idle"

\* No insert has completed since the last call of add.
NoInsert == [evicted |-> "none", oldest |-> "none", fresh |-> "none"]

StoreInit ==
  /\ ls_fs = [path \in StorePaths |-> NoDir]
  /\ ls_manifest = <<>>
  /\ ls_cap \in Caps
  /\ ls_procs = [p \in StoreProcs |-> [pc |-> "idle", key |-> "none",
                                       todo |-> <<>>]]
  /\ ls_adds = [calls |-> 0, keys |-> 0, crashes |-> 0]
  /\ ls_seen = "none"
  /\ ls_last = NoInsert
  /\ ls_s4 = 0

\* add(H, E, file_map, allow_hardlink) is called.
LsAddBegin(p, max_adds) ==
  /\ ls_procs[p].pc = "idle"
  /\ ls_adds.calls < max_adds
  /\ \E i \in DOMAIN StoreKeyOrder :
     LET key == StoreKeyOrder[i]
     IN
       /\ i <= ls_adds.keys + 1
       /\ ls_adds' = [ls_adds EXCEPT
                        !.calls = @ + 1,
                        !.keys = IF i > @ THEN i ELSE @]
       /\ ls_procs' = [ls_procs EXCEPT ![p] = [pc |-> "create", key |-> key,
                                               todo |-> StoreFileIds]]
       /\ ls_s4' = IF /\ ls_s4 >= 0
                      /\ S4Inserts[ls_s4 + 1] = key
                      /\ ls_cap = 1024
                      /\ OthersIdle(p)
                   THEN ls_s4 ELSE OffS4
  /\ ls_last' = NoInsert
  /\ UNCHANGED <<ls_fs, ls_manifest, ls_cap, ls_seen>>

\* add, step 1: create the temp directory.
LsCreateTemp(p) ==
  /\ ls_procs[p].pc = "create"
  /\ LET dir == AddDir(ls_procs[p].key, p)
     IN ls_fs' = IF ls_fs[dir] = NoDir THEN [ls_fs EXCEPT ![dir] = EmptyDir]
                 ELSE ls_fs
  /\ ls_procs' = [ls_procs EXCEPT ![p].pc = "files"]
  /\ UNCHANGED <<ls_manifest, ls_cap, ls_adds, ls_seen, ls_last, ls_s4>>

\* add, step 2: place the next file into the temp directory.
LsPlaceFile(p) ==
  /\ ls_procs[p].pc = "files"
  /\ LET dir == AddDir(ls_procs[p].key, p)
         file == Head(ls_procs[p].todo)
     IN /\ ls_fs[dir] # NoDir
        /\ ls_fs' =
             [ls_fs EXCEPT
                ![dir].files =
                  {f \in @ : f[1] # file} \cup {<<file, p>>}]
  /\ ls_procs' = [ls_procs EXCEPT
                    ![p].todo = Tail(@),
                    ![p].pc = IF Tail(ls_procs[p].todo) = <<>>
                              THEN "manifest" ELSE "files"]
  /\ UNCHANGED <<ls_manifest, ls_cap, ls_adds, ls_seen, ls_last, ls_s4>>

\* add, step 3: write the serialised manifest into the temp directory.
LsWriteManifest(p) ==
  /\ ls_procs[p].pc = "manifest"
  /\ LET dir == AddDir(ls_procs[p].key, p)
     IN /\ ls_fs[dir] # NoDir
        /\ ls_fs' = [ls_fs EXCEPT ![dir].manifest = p]
  /\ ls_procs' = [ls_procs EXCEPT ![p].pc = "rename"]
  /\ UNCHANGED <<ls_manifest, ls_cap, ls_adds, ls_seen, ls_last, ls_s4>>

\* add, step 4: rename the temp directory into place, or delete it when
\* the destination exists.
LsRename(p) ==
  /\ ls_procs[p].pc = "rename"
  /\ LET temp == AddDir(ls_procs[p].key, p)
         destination == FinalPath(ls_procs[p].key)
     IN ls_fs' = IF RenameWins(ls_fs[destination])
                 THEN [ls_fs EXCEPT ![temp] = NoDir,
                                    ![destination] = ls_fs[temp]]
                 ELSE [ls_fs EXCEPT ![temp] = NoDir]
  /\ ls_procs' = [ls_procs EXCEPT ![p].pc = "register"]
  /\ UNCHANGED <<ls_manifest, ls_cap, ls_adds, ls_seen, ls_last, ls_s4>>

\* add, step 5, under the lock of the global manifest: record the entry
\* with its size and the current time and evict when the total exceeds the
\* cap.
LsRegister(p) ==
  /\ ls_procs[p].pc = "register"
  /\ LET key == ls_procs[p].key
         listed == Touched(ls_manifest, key, EntryKiB)
         kept == EvictTo(listed, ls_cap)
         evicted == SelectSeq(listed, LAMBDA r : r[1] \notin KeySet(kept))
     IN /\ ls_manifest' = kept
        /\ ls_fs' = [path \in StorePaths |->
                       IF \E k \in KeySet(evicted) : path = FinalPath(k)
                       THEN NoDir ELSE ls_fs[path]]
        /\ ls_last' = [evicted |-> IF evicted = <<>> THEN "none"
                                   ELSE evicted[1][1],
                       oldest |-> listed[1][1],
                       fresh |-> ls_seen]
  /\ ls_seen' = "none"
  /\ ls_procs' = [ls_procs EXCEPT ![p] = [pc |-> "idle", key |-> "none",
                                          todo |-> <<>>]]
  /\ ls_s4' = IF ls_s4 >= 0 THEN ls_s4 + 1 ELSE OffS4
  /\ UNCHANGED <<ls_cap, ls_adds>>

\* The process is killed during add.
LsCrash(p) ==
  /\ ls_procs[p].pc \in {"create", "files", "manifest", "rename", "register"}
  /\ ls_adds.crashes < MaxCrashes
  /\ ls_procs' = [ls_procs EXCEPT ![p].pc = "crashed"]
  /\ ls_adds' = [ls_adds EXCEPT !.crashes = @ + 1]
  /\ ls_s4' = OffS4
  /\ UNCHANGED <<ls_fs, ls_manifest, ls_cap, ls_seen, ls_last>>

\* lookup(H) by any process, and touch(H) on a hit.
LsLookup ==
  \E key \in StoreKeys :
    LET dir == ls_fs[FinalPath(key)]
        hit == dir # NoDir /\ dir.manifest # 0
    IN /\ ls_seen' = IF hit THEN key ELSE ls_seen
       /\ ls_manifest' = IF hit /\ key \in KeySet(ls_manifest)
                         THEN Touched(ls_manifest, key, EntryKiB)
                         ELSE ls_manifest
       /\ ls_s4' = IF /\ ls_s4 = 3
                      /\ key = "E1"
                      /\ \A p \in StoreProcs : ls_procs[p].pc = "idle"
                   THEN 4 ELSE OffS4
       /\ UNCHANGED <<ls_fs, ls_cap, ls_procs, ls_adds, ls_last>>

InitStore ==
  DriverIdle /\ FpIdle /\ MsvcIdle /\ PoolIdle /\ IoIdle /\ RedisIdle
  /\ ConnIdle /\ StoreInit /\ LockIdle

NextStore ==
  \/ (\E p \in StoreProcs :
        LsAddBegin(p, MaxStoreAdds) /\ UNCHANGED nonStoreVars)
  \/ (\E p \in StoreProcs : LsCreateTemp(p) /\ UNCHANGED nonStoreVars)
  \/ (\E p \in StoreProcs : LsPlaceFile(p) /\ UNCHANGED nonStoreVars)
  \/ (\E p \in StoreProcs : LsWriteManifest(p) /\ UNCHANGED nonStoreVars)
  \/ (\E p \in StoreProcs : LsRename(p) /\ UNCHANGED nonStoreVars)
  \/ (\E p \in StoreProcs : LsRegister(p) /\ UNCHANGED nonStoreVars)
  \/ (\E p \in StoreProcs : LsCrash(p) /\ UNCHANGED nonStoreVars)
  \/ (LsLookup /\ UNCHANGED nonStoreVars)

SpecStore == InitStore /\ [][NextStore]_vars

\* One process makes every call of add and is not killed; lookups come
\* from any process at any time.
NextStoreSeq ==
  \/ (LsAddBegin(1, MaxSeqAdds) /\ UNCHANGED nonStoreVars)
  \/ (LsCreateTemp(1) /\ UNCHANGED nonStoreVars)
  \/ (LsPlaceFile(1) /\ UNCHANGED nonStoreVars)
  \/ (LsWriteManifest(1) /\ UNCHANGED nonStoreVars)
  \/ (LsRename(1) /\ UNCHANGED nonStoreVars)
  \/ (LsRegister(1) /\ UNCHANGED nonStoreVars)
  \/ (LsLookup /\ UNCHANGED nonStoreVars)

SpecStoreSeq == InitStore /\ [][NextStoreSeq]_vars

----------------------------------------------------------------------------
(* Properties of the local store (specifications SpecStore and             *)
(* SpecStoreSeq).                                                          *)

\* The keys that have a directory at their final path, and their size.
Stored == {k \in StoreKeys : ls_fs[FinalPath(k)] # NoDir}
OnDiskSize == EntryKiB * Cardinality(Stored)

\* C25: at every point of every add, a killed process included, the
\* directory a lookup opens for a key does not exist or holds the manifest
\* and every file of one entry.
C25_FinalPathAllOrNothing ==
  \A k \in StoreKeys :
    ls_fs[FinalPath(k)] = NoDir \/ Complete(ls_fs[FinalPath(k)])

\* A process was killed with a file and no manifest in its temp directory,
\* and the key holds the entry of another process.
C25_Witness ==
  \E p \in StoreProcs :
    /\ ls_procs[p].pc = "crashed"
    /\ ls_fs[TempPath(ls_procs[p].key, p)] # NoDir
    /\ ls_fs[TempPath(ls_procs[p].key, p)].files # {}
    /\ ls_fs[TempPath(ls_procs[p].key, p)].manifest = 0
    /\ Complete(ls_fs[FinalPath(ls_procs[p].key)])
    /\ ls_fs[FinalPath(ls_procs[p].key)].manifest # p

C27_AsStated ==
  ls_s4 = 5 => (Stored = {"E1", "E3", "E4"} /\ OnDiskSize <= ls_cap)

\* C27, amended: in scenario S4 the insert of E3 evicts E1, the touch of
\* E1 is a miss, and the insert of E4 evicts E2; the scenario ends with E3
\* and E4 stored, within the cap.
C27_S4EndsWithE3AndE4 ==
  /\ ls_s4 = 3 => Stored = {"E2", "E3"}
  /\ ls_s4 = 4 =>
       /\ ls_seen = "none"
       /\ KeySet(ls_manifest) = {"E2", "E3"}
       /\ Stored \in {{"E2", "E3"}, {"E2", "E3", "E4"}}
  /\ ls_s4 = 5 =>
       /\ Stored = {"E3", "E4"}
       /\ KeySet(ls_manifest) = {"E3", "E4"}
       /\ OnDiskSize <= ls_cap

\* Scenario S4 has been run to its end.
C27_Witness == ls_s4 = 5 /\ ls_cap = 1024 /\ ls_adds.calls = 4

\* C28: a directory at a final path holds one whole entry and stays as
\* the process whose rename created it left it, until it is evicted; the
\* temp directory of a process that is past its rename is gone; the global
\* manifest lists a key at most once; when every add was for one key and
\* one of them has returned, the key is stored and listed once nothing is
\* in progress.
C28_OneEntryFromTheWinner ==
  /\ []((/\ \A p \in StoreProcs : ls_procs[p].pc \in {"idle", "crashed"}
          /\ ls_adds.keys = 1
          /\ ls_adds.calls > ls_adds.crashes) =>
           (Stored = {"E1"} /\ KeySet(ls_manifest) = {"E1"}))
  /\ [](/\ \A k \in StoreKeys :
             /\ ls_fs[FinalPath(k)] = NoDir \/ Complete(ls_fs[FinalPath(k)])
             /\ Cardinality({i \in DOMAIN ls_manifest :
                               ls_manifest[i][1] = k}) <= 1
        /\ \A p \in StoreProcs, k \in StoreKeys :
             ls_procs[p].pc \in {"idle", "register"} =>
               ls_fs[TempPath(k, p)] = NoDir)
  /\ [][\A k \in StoreKeys :
          ls_fs[FinalPath(k)] # NoDir =>
            ls_fs'[FinalPath(k)] \in {ls_fs[FinalPath(k)], NoDir}]_vars

\* Two processes have added the same key at the same time: both are past
\* their rename, and the key holds the entry of one of them.
C28_Witness ==
  /\ \A p \in StoreProcs :
       ls_procs[p].pc = "register" /\ ls_procs[p].key = "E1"
  /\ Complete(ls_fs[FinalPath("E1")])
  /\ \A p \in StoreProcs : ls_fs[TempPath("E1", p)] = NoDir

====
